---- MODULE Spec2Model ----
(***************************************************************************)
(* The storage engine of brook: the segment log (Log) with its sparse      *)
(* index (Index, MmapStore), the asynchronous writer (AsyncWriter) and the *)
(* partition (Partition) that rotates segments.                            *)
(*                                                                         *)
(* A segment file is a sequence of records.  A record on the file is       *)
(*   [off, payload, present]                                               *)
(* where off is the LogicalOffset of its header, payload its bytes and     *)
(* present the number of its bytes that are on the file: HeaderSize +      *)
(* Len(payload) for a whole record, fewer for the torn record a crash      *)
(* leaves at the end of the file.  The header's Timestamp is the wall      *)
(* clock and is read by no operation; it is left out.                      *)
(*                                                                         *)
(* IndexStride and RotateLimit are 500 and 10000 in the source, and the    *)
(* capacity of the async writer's queue (QueueCap) is 10.  They are bounds *)
(* of this model, scaled so that runs cross a stride boundary, a rotation  *)
(* and a full queue within a few calls.  The fields of an index entry are  *)
(* uint32 in the source; here they are Uint32Bits wide, so that a segment  *)
(* of a few dozen records grows past what an entry can hold.               *)
(***************************************************************************)
EXTENDS Integers, Sequences, FiniteSets, TLC

HeaderSize == 24
entryWidth == 8
IndexBufEntries == 5

\* Bounds of the model.
IndexStride == 2
RotateLimit == 4
MaxAppends == 5
MaxOpens == 1
MaxConcAppends == 3
MaxPartAppends == 7
MaxPartOpens == 1
MaxTicks == 1
MaxIxWrites == 6
MaxIxOpens == 2
MaxAwWrites == 3
MaxFaults == 1
MaxShortAppends == 2
MaxStrideAppends == 14
MaxFaultAppends == 5
MaxCxWrites == 2
MaxMmBytes == 16
MaxCountAppends == 2
Uint32Bits == 10
MaxWideAppends == 44
QueueCap == 2

Payloads == {<<>>, <<7>>}
Threads == {1, 2}
Bases == {0, 1}
Modes == {"async", "medium", "full"}
NoThread == 0

VARIABLES
    l,          \* the Log handle: nextOffset, nextMemoryPos, baseOffset, ...
    file,       \* the segment file, as the operating system holds it
    idxFile,    \* the index file: the entries flushed to it
    queue,      \* AsyncWriter.queue: the buffers sent and not yet written
    abuf,       \* AsyncWriter.writer: records written and not yet flushed
    muW,        \* Log.mu: the thread holding the write lock, or NoThread
    muR,        \* Log.mu: the threads holding the read lock
    pc,         \* where each thread is
    arg,        \* the argument of the call each thread is in
    res,        \* the result of the call that finished last
    hist,       \* the payloads of the appends that returned success, in order
    origin,     \* how the handle was made: "fresh", "clean" or "crash"
    opens,      \* the number of times the segment was opened again
    touched,    \* an Append has returned success since the handle was opened
    atOpen,     \* the size of the file, nextOffset and the appends so far, at the open
    p,          \* the Partition: segments, activeLog, activeLogName, nextOffset
    dir,        \* the partition's directory: base offset -> [log, idx]
    aged,       \* the active segment was created more than 24 hours ago
    phist,      \* the payloads of the Partition.Append calls that succeeded
    pres,       \* the result of the last Partition call
    ticks,      \* the number of times 24 hours passed
    restarts,   \* the number of times the partition was opened again
    others,     \* the entries of the directory that are neither segments nor indexes
    faults,     \* the number of operations the file system has failed
    index,      \* an Index used by itself: its writer's buffer and its mapping
    ixFile,     \* its file: the whole entries on it
    ixTail,     \* its file: the bytes after the last whole entry
    ixLog,      \* the entries WriteEntry accepted on the open handle, in order
    ixBase,     \* the entries the file held when the handle was opened
    ixRes,      \* the result of the last Index call
    ixOpens,    \* the number of times the index was opened again
    awQueue,    \* an AsyncWriter used by itself: its queue
    awBuf,      \* its buffered writer
    awFile,     \* the file under it
    awDone,     \* its done channel is closed
    awWorker,   \* where its worker is: "loop", "ondone" or "exited"
    awPc,       \* where each caller is
    awArg,      \* what each caller's call was given and has seen
    awRes,      \* the result of each caller's last call
    awAcked,    \* the data of the Write calls that returned success, by caller
    awSent,     \* the number of Write calls made
    awClosed,   \* a call of Close has returned
    awOrder,    \* the data sent onto the queue, in the order the sends succeeded
    cx,         \* an Index shared by threads: writer's buffer, file, reader's data
    cxMu,       \* Index.mu: the thread holding the lock, the threads holding the read lock
    cxPc,       \* where each thread is in its Index call
    cxArg,      \* what each thread's Index call was given and has seen
    cxRes,      \* the result of each thread's last Index call
    cxAcked,    \* the entries of the WriteEntry calls that returned success, in order
    mm,         \* a MmapStore used by itself: its file's size and its data
    mmRes,      \* the result of its last call
    skMode,     \* the locks and channels alone: the mode of the segment they belong to
    skMu,       \* Partition.mu, Log.mu and Index.mu: the writer, the readers
    skSteps,    \* what each thread has still to do of the call it is in
    skQueue     \* the number of buffers in the async writer's queue

segVars == <<l, file, idxFile, queue, abuf, muW, muR, pc, arg, res, hist, origin, opens, touched,
            atOpen>>
partVars == <<p, dir, aged, phist, pres, ticks, restarts, others, faults>>
skVars == <<skMode, skMu, skSteps, skQueue>>
cxVars == <<cx, cxMu, cxPc, cxArg, cxRes, cxAcked, mm, mmRes, skVars>>
ixVars == <<index, ixFile, ixTail, ixLog, ixBase, ixRes, ixOpens, cxVars>>
awVars == <<awQueue, awBuf, awFile, awDone, awWorker, awPc, awArg, awRes, awAcked, awSent, awClosed,
           awOrder>>
vars == <<l, file, idxFile, queue, abuf, muW, muR, pc, arg, res, hist, origin, opens, touched,
          atOpen,
          p, dir, aged, phist, pres, ticks, restarts, others, faults,
          index, ixFile, ixTail, ixLog, ixBase, ixRes, ixOpens,
          awQueue, awBuf, awFile, awDone, awWorker, awPc, awArg, awRes, awAcked, awSent,
          awClosed, awOrder,
          cx, cxMu, cxPc, cxArg, cxRes, cxAcked, mm, mmRes,
          skMode, skMu, skSteps, skQueue>>

----------------------------------------------------------------------------
(* Records and the segment file. *)

RecSize(payload) == HeaderSize + Len(payload)

Whole(off, payload) == [off |-> off, payload |-> payload, present |-> RecSize(payload)]

RECURSIVE FileSize(_)
FileSize(f) == IF f = <<>> THEN 0 ELSE Head(f).present + FileSize(Tail(f))

\* The record of f that starts at byte pos (0 when no record starts there).
RECURSIVE RecIndexAt(_, _, _, _)
RecIndexAt(f, k, start, pos) ==
    IF k > Len(f) THEN 0
    ELSE IF start = pos THEN k
    ELSE IF start > pos THEN 0
    ELSE RecIndexAt(f, k + 1, start + f[k].present, pos)

NoHeader == [LogicalOffset |-> 0, PayloadSize |-> 0]
NoRecord == [Header |-> NoHeader, Payload |-> <<>>]

\* file.ReadAt(headerBuf, pos) and Decode: the header at pos, or a read error
\* when fewer than HeaderSize bytes follow pos.  "garbage" marks a read that
\* does not start on a record: no run of the model makes one.
ReadHeader(f, pos) ==
    IF pos < 0 \/ pos + HeaderSize > FileSize(f) THEN [st |-> "readerr", h |-> NoHeader, k |-> 0]
    ELSE LET k == RecIndexAt(f, 1, 0, pos) IN
         IF k = 0 \/ f[k].present < HeaderSize THEN [st |-> "garbage", h |-> NoHeader, k |-> 0]
         ELSE [st |-> "ok",
               h |-> [LogicalOffset |-> f[k].off, PayloadSize |-> Len(f[k].payload)],
               k |-> k]

\* loadPayload: the payload of record k, or an error when the file ends before it.
loadPayload(f, k) ==
    IF f[k].present < RecSize(f[k].payload) THEN [st |-> "loaderr", payload |-> <<>>]
    ELSE [st |-> "ok", payload |-> f[k].payload]

----------------------------------------------------------------------------
(* Index entries, the index writer (bufio of 5 entries) and the mmap reader. *)

\* uint32(x) of a non-negative int64: the low bits of x.
ToUint32(x) == x % (2 ^ Uint32Bits)

IndexEntry(off, pos) == [LogicalOff |-> off, MemoryPos |-> pos]
EmptyEntry == IndexEntry(0, 0)

\* The Index handle: buf is writer's buffer, mapped the length of reader.data,
\* werr says that the writer has met an error (it returns it ever after).
NewIndexHandle(ifile) == [buf |-> <<>>, mapped |-> Len(ifile) * entryWidth, werr |-> FALSE]

\* bufio.Writer.Write of one entry over a full buffer, the buffer dropped.
WriteEntryDropping(ix, ifile, entry) ==
    IF Len(ix.buf) >= IndexBufEntries
    THEN [ix |-> [ix EXCEPT !.buf = <<entry>>], ifile |-> ifile]
    ELSE [ix |-> [ix EXCEPT !.buf = Append(ix.buf, entry)], ifile |-> ifile]

\* bufio.Writer.Write of one entry: a full buffer is flushed to the file first.
WriteEntry(ix, ifile, entry) ==
    IF Len(ix.buf) >= IndexBufEntries
    THEN [ix |-> [ix EXCEPT !.buf = <<entry>>], ifile |-> ifile \o ix.buf]
    ELSE [ix |-> [ix EXCEPT !.buf = Append(ix.buf, entry)], ifile |-> ifile]

\* bufio.Writer.Write of one entry when the flush of the full buffer fails, or
\* when the writer has met an error before: the entry is not taken.
WriteEntryFailed(ix, ifile, entry) == [ix |-> [ix EXCEPT !.werr = TRUE], ifile |-> ifile]

\* A reader.Sync that never maps again.
MmapSyncStale(mapped, ifile) == mapped

\* MmapStore.Sync: remap when the file is longer than the mapping.
MmapSync(mapped, ifile) ==
    IF Len(ifile) * entryWidth <= mapped THEN mapped ELSE Len(ifile) * entryWidth

\* The exclusive section of FindNearest and LastEntry: writer.Flush, reader.Sync.
IndexSync(ix, ifile) ==
    LET flushed == ifile \o ix.buf IN
    [ix |-> [ix EXCEPT !.buf = <<>>, !.mapped = MmapSync(ix.mapped, flushed)], ifile |-> flushed]

\* readEntryInternal over the mapping.
readEntryInternal(ix, ifile, k) == ifile[k + 1]

\* sort.Search(n, pred): binary search for the smallest k in [0, n) with pred.
RECURSIVE SortSearch(_, _, _, _, _)
SortSearch(ix, ifile, target, i, j) ==
    IF i >= j THEN i
    ELSE LET h == (i + j) \div 2 IN
         IF ~(readEntryInternal(ix, ifile, h).LogicalOff > target)
         THEN SortSearch(ix, ifile, target, h + 1, j)
         ELSE SortSearch(ix, ifile, target, i, h)

\* The shared section of FindNearest: the entry with the greatest LogicalOff
\* <= target among the mapped entries, or the empty entry.
FindNearestSearch(ix, ifile, target) ==
    LET totalEntries == ix.mapped \div entryWidth
        idx == SortSearch(ix, ifile, target, 0, totalEntries)
    IN IF idx = 0 THEN EmptyEntry ELSE readEntryInternal(ix, ifile, idx - 1)

\* The shared section of LastEntry.
LastEntrySearch(ix, ifile) ==
    IF ix.mapped = 0 THEN EmptyEntry
    ELSE readEntryInternal(ix, ifile, (ix.mapped \div entryWidth) - 1)

----------------------------------------------------------------------------
(* The segment log. *)

\* scanFrom with FindRecord's handler: the record whose header has the target.
RECURSIVE ScanFind(_, _, _, _)
ScanFind(f, nextMemoryPos, currentPos, target) ==
    IF currentPos >= nextMemoryPos THEN [st |-> "notfound", rec |-> NoRecord]
    ELSE LET r == ReadHeader(f, currentPos) IN
         IF r.st # "ok" THEN [st |-> r.st, rec |-> NoRecord]
         ELSE IF r.h.LogicalOffset = target
              THEN LET pl == loadPayload(f, r.k) IN
                   IF pl.st = "ok"
                   THEN [st |-> "ok", rec |-> [Header |-> r.h, Payload |-> pl.payload]]
                   ELSE [st |-> "loaderr", rec |-> [Header |-> r.h, Payload |-> <<>>]]
              ELSE ScanFind(f, nextMemoryPos, currentPos + HeaderSize + r.h.PayloadSize, target)

\* scanFrom with reloadNextOffset's handler: the last LogicalOffset seen.
RECURSIVE ScanLast(_, _, _, _)
ScanLast(f, nextMemoryPos, currentPos, lastRecordOffset) ==
    IF currentPos >= nextMemoryPos THEN [st |-> "notfound", last |-> lastRecordOffset]
    ELSE LET r == ReadHeader(f, currentPos) IN
         IF r.st # "ok" THEN [st |-> r.st, last |-> lastRecordOffset]
         ELSE ScanLast(f, nextMemoryPos, currentPos + HeaderSize + r.h.PayloadSize,
                       r.h.LogicalOffset)

\* reloadNextOffset: the value for nextOffset, or an error.
reloadNextOffset(f, nextMemoryPos, lastEntry) ==
    LET s == ScanLast(f, nextMemoryPos, lastEntry.MemoryPos, 0) IN
    IF s.st = "notfound" THEN [st |-> "ok", next |-> s.last + 1]
    ELSE [st |-> s.st, next |-> 0]

\* newLog and NewLogReadOnly on the files f and ifile: the handle, or a failed
\* open.  NewIndex and LastEntry write the index file only by a flush of an
\* empty buffer, so the files are as they were.
newLog(f, ifile, baseOffset, mode, readOnly) ==
    LET ix0 == NewIndexHandle(ifile)
        s == IndexSync(ix0, ifile)
        lastEntry == LastEntrySearch(s.ix, s.ifile)
        size == FileSize(f)
        rl == IF size # 0 THEN reloadNextOffset(f, size, lastEntry)
              ELSE [st |-> "ok", next |-> 0]
    IN [open |-> rl.st = "ok",
        err |-> rl.st,
        readOnly |-> readOnly,
        mode |-> mode,
        baseOffset |-> baseOffset,
        nextMemoryPos |-> size,
        nextOffset |-> rl.next,
        index |-> s.ix,
        werr |-> FALSE]

\* A stride test that holds one append early.
StrideDueEarly(nxt) == (nxt + 1) % IndexStride = 0

\* Log.Append: l.nextOffset%500 == 0, after nextOffset was advanced.
StrideDue(nxt) == nxt % IndexStride = 0

\* An Append that advances nextMemoryPos by the payload alone.
AppendAdvancePayload(lg, ifile, payload) ==
    [lg |-> [lg EXCEPT !.nextMemoryPos = @ + Len(payload), !.nextOffset = @ + 1],
     ifile |-> ifile]

\* Log.Append after writeFunc returned success: the counters advance and, on
\* a stride boundary, the entry goes to the index.
AppendAdvance(lg, ifile, payload) ==
    LET pos == lg.nextMemoryPos + HeaderSize + Len(payload)
        nxt == lg.nextOffset + 1
        w == IF ~StrideDue(nxt) THEN [ix |-> lg.index, ifile |-> ifile]
             ELSE WriteEntry(lg.index, ifile, IndexEntry(ToUint32(nxt), ToUint32(pos)))
    IN [lg |-> [lg EXCEPT !.nextMemoryPos = pos, !.nextOffset = nxt, !.index = w.ix],
        ifile |-> w.ifile]

\* Log.Append after writeFunc returned success, on a stride boundary, when
\* WriteEntry returns an error: the counters have advanced.
AppendAdvanceIndexErr(lg, ifile, payload) ==
    LET pos == lg.nextMemoryPos + HeaderSize + Len(payload)
        nxt == lg.nextOffset + 1
        w == WriteEntryFailed(lg.index, ifile, IndexEntry(ToUint32(nxt), ToUint32(pos)))
    IN [lg |-> [lg EXCEPT !.nextMemoryPos = pos, !.nextOffset = nxt, !.index = w.ix],
        ifile |-> w.ifile]

\* The record Log.Append builds: the global offset is baseOffset + nextOffset.
AppendRecord(lg, payload) == Whole(lg.baseOffset + lg.nextOffset, payload)

\* FindRecord once the writer is flushed: FindNearest's search, then the scan.
FindRecordScan(lg, f, ifile, target) ==
    LET baseIndexEntry == FindNearestSearch(lg.index, ifile, ToUint32(target))
        s == ScanFind(f, lg.nextMemoryPos, baseIndexEntry.MemoryPos, target)
    IN [st |-> s.st, rec |-> IF s.st \in {"ok", "loaderr"} THEN s.rec ELSE NoRecord]

\* FindRecord on a quiescent handle with a flushed writer: sync, search, scan.
\* FindNearest returns the error of the index writer's Flush.
FindRecord(lg, f, ifile, target) ==
    LET s == IndexSync(lg.index, ifile) IN
    IF lg.index.werr THEN [st |-> "indexerr", rec |-> NoRecord]
    ELSE FindRecordScan([lg EXCEPT !.index = s.ix], f, s.ifile, target)

----------------------------------------------------------------------------
(* One segment and its life: appends, reads, close, crash, reopen. *)

NoArg == [payload |-> <<>>, target |-> 0, entry |-> EmptyEntry, known |-> FALSE]
NoRes == [op |-> "none", st |-> "ok", target |-> 0, rec |-> NoRecord, known |-> FALSE]

IsAsync == l.mode = "async" /\ ~l.readOnly

\* The records of f that are whole on the file.
WholeRecords(f) == SelectSeq(f, LAMBDA r : r.present = RecSize(r.payload))
NoTornTail(f) == WholeRecords(f) = f

\* The offsets the appends that returned success were stamped with.
Stamped == {hist[i].off : i \in 1..Len(hist)}

\* What the segment file holds once the asynchronous writer has written and
\* flushed all it was sent.
Settled == file \o abuf \o queue

\* What the handle lg found when it was opened on the file f, after the
\* appends h.
AtOpen(f, lg, h) == [size |-> FileSize(f), nextOffset |-> lg.nextOffset, appends |-> Len(h)]

SegInit ==
    /\ \E b \in Bases, m \in Modes : l = newLog(<<>>, <<>>, b, m, FALSE)
    /\ file = <<>>
    /\ idxFile = <<>>
    /\ queue = <<>>
    /\ abuf = <<>>
    /\ muW = NoThread
    /\ muR = {}
    /\ pc = [t \in Threads |-> "idle"]
    /\ arg = [t \in Threads |-> NoArg]
    /\ res = NoRes
    /\ hist = <<>>
    /\ origin = "fresh"
    /\ opens = 0
    /\ touched = FALSE
    /\ atOpen = AtOpen(<<>>, l, <<>>)

\* The effect of Log.Append under the lock: writeFunc, the counters and the
\* index entry.  The synchronous writeFunc writes and flushes (its buffer is
\* empty between appends); the asynchronous one sends the buffer to the queue.
AppendBodyWith(payload, a, st) ==
    LET rec == AppendRecord(l, payload)
    IN /\ IF IsAsync
          THEN /\ Len(queue) < QueueCap
               /\ queue' = Append(queue, rec)
               /\ file' = file
          ELSE /\ file' = Append(file, rec)
               /\ queue' = queue
       /\ l' = a.lg
       /\ idxFile' = a.ifile
       /\ hist' = Append(hist, [off |-> rec.off, payload |-> payload])
       /\ res' = [NoRes EXCEPT !.op = "append", !.st = st, !.target = rec.off]
       /\ touched' = TRUE

AppendBody(payload) == AppendBodyWith(payload, AppendAdvance(l, idxFile, payload), "ok")

\* An Append that does not look at the handle's readOnly.
NeverReadOnly(lg) == FALSE

\* Log.Append: if l.readOnly.
IsReadOnly(lg) == lg.readOnly

\* Log.Append on a read-only handle: the error, before the lock is taken.
AppendReadOnly ==
    /\ l.open /\ IsReadOnly(l)
    /\ res' = [NoRes EXCEPT !.op = "append", !.st = "readonly"]
    /\ UNCHANGED <<ixVars, awVars, partVars, l, file, idxFile, queue, abuf, muW, muR, pc, arg, hist, origin, opens, touched, atOpen>>

\* Log.Append by a single caller, the segment having taken fewer than n appends.
LogAppendUpTo(n) ==
    /\ l.open /\ ~IsReadOnly(l)
    /\ Len(hist) < n
    /\ NoTornTail(file)
    /\ \E payload \in Payloads : AppendBody(payload)
    /\ UNCHANGED <<ixVars, awVars, partVars, abuf, muW, muR, pc, arg, origin, opens, atOpen>>

\* Log.FindRecord by a single caller: FindNearest (flush and sync the index,
\* search), then scanFrom: flushFunc and the scan.  The asynchronous flushFunc
\* has the worker flush its buffered writer, whatever the queue still holds.
FindRecordCall ==
    /\ l.open
    /\ \E target \in Stamped \cup {l.baseOffset + l.nextOffset} :
          LET s == IndexSync(l.index, idxFile)
              flushed == IF IsAsync THEN file \o abuf ELSE file
              r == FindRecordScan([l EXCEPT !.index = s.ix], flushed, s.ifile, target)
          IN /\ l' = [l EXCEPT !.index = s.ix]
             /\ idxFile' = s.ifile
             /\ file' = flushed
             /\ abuf' = IF IsAsync THEN <<>> ELSE abuf
             /\ res' = [op |-> "find", st |-> r.st, target |-> target, rec |-> r.rec,
                        known |-> target \in Stamped]
    /\ UNCHANGED <<ixVars, awVars, partVars, queue, muW, muR, pc, arg, hist, origin, opens, touched, atOpen>>

\* writerLoop, case data := <-aw.queue.
WorkerWrite ==
    /\ l.open /\ IsAsync /\ queue # <<>>
    /\ abuf' = Append(abuf, Head(queue))
    /\ queue' = Tail(queue)
    /\ UNCHANGED <<ixVars, awVars, partVars, l, file, idxFile, muW, muR, pc, arg, res, hist, origin, opens, touched, atOpen>>

\* writerLoop, case <-ticker.C.
WorkerTick ==
    /\ l.open /\ IsAsync /\ abuf # <<>>
    /\ file' = file \o abuf
    /\ abuf' = <<>>
    /\ UNCHANGED <<ixVars, awVars, partVars, l, idxFile, queue, muW, muR, pc, arg, res, hist, origin, opens, touched, atOpen>>

\* Log.Close: closeFunc (the asynchronous writer drains its queue and flushes),
\* Index.Close (flush), file.Close.
LogClose ==
    /\ l.open /\ muW = NoThread /\ muR = {}
    /\ file' = Settled
    /\ idxFile' = idxFile \o l.index.buf
    /\ queue' = <<>>
    /\ abuf' = <<>>
    /\ l' = [l EXCEPT !.open = FALSE, !.index = NewIndexHandle(idxFile')]
    /\ origin' = IF origin = "crash" THEN "crash" ELSE "clean"
    /\ UNCHANGED <<ixVars, awVars, partVars, muW, muR, pc, arg, res, hist, opens, touched, atOpen>>

\* The bytes a torn record may have on the file: half a header, or the header
\* and less than the whole payload.
TornCuts(r) == {HeaderSize \div 2} \cup {HeaderSize + k : k \in 0..(Len(r.payload) - 1)}

\* The process ends without Close.  What the index writer, the queue and the
\* asynchronous writer's buffer hold is lost.  The buffered writer of the
\* asynchronous mode flushes by itself when it fills in the middle of a record:
\* the records buffered before it are then whole on the file and the last torn.
Crash ==
    /\ l.open /\ muW = NoThread /\ muR = {}
    /\ \/ file' = file
       \/ /\ abuf # <<>>
          /\ \E c \in TornCuts(abuf[Len(abuf)]) :
                file' = file \o SubSeq(abuf, 1, Len(abuf) - 1)
                             \o <<[abuf[Len(abuf)] EXCEPT !.present = c]>>
    /\ queue' = <<>>
    /\ abuf' = <<>>
    /\ l' = [l EXCEPT !.open = FALSE, !.index = NewIndexHandle(idxFile)]
    /\ origin' = "crash"
    /\ UNCHANGED <<ixVars, awVars, partVars, idxFile, muW, muR, pc, arg, res, hist, opens, touched, atOpen>>

\* newLog (in the mode the segment had) or NewLogReadOnly on the files the
\* segment left.
Reopen ==
    /\ ~l.open /\ origin # "fresh" /\ opens < MaxOpens
    /\ \E ro \in BOOLEAN : l' = newLog(file, idxFile, l.baseOffset, l.mode, ro)
    /\ opens' = opens + 1
    /\ touched' = FALSE
    /\ res' = NoRes
    /\ atOpen' = AtOpen(file, l', hist)
    /\ UNCHANGED <<ixVars, awVars, partVars, file, idxFile, queue, abuf, muW, muR, pc, arg, hist, origin>>

LogAppend == LogAppendUpTo(MaxAppends)

SegNext ==
    \/ AppendReadOnly \/ LogAppend \/ FindRecordCall
    \/ WorkerWrite \/ WorkerTick
    \/ LogClose \/ Crash \/ Reopen

\* The same segment in runs of few appends.
ShortNext ==
    \/ AppendReadOnly \/ LogAppendUpTo(MaxShortAppends) \/ FindRecordCall
    \/ WorkerWrite \/ WorkerTick
    \/ LogClose \/ Crash \/ Reopen

\* No Index is shared by threads and no MmapStore is in use by itself.
NoData == [len |-> 0, live |-> TRUE]
NoCxArg == [op |-> "none", target |-> 0, seen |-> 0, inbuf |-> FALSE, past |-> FALSE, n |-> 0]
NoCxRes == [op |-> "none", st |-> "ok", target |-> 0, seen |-> 0, inbuf |-> FALSE,
            grew |-> FALSE, entry |-> EmptyEntry]
NoMmRes == [op |-> "none", st |-> "ok", off |-> 0, len |-> 0, size |-> 0, had |-> NoData]
NoMm == [size |-> 0, data |-> NoData, failed |-> FALSE, faults |-> 0]
CxUnused ==
    /\ cx = [buf |-> <<>>, file |-> <<>>, data |-> NoData, werr |-> FALSE, closed |-> TRUE]
    /\ cxMu = [w |-> NoThread, r |-> {}]
    /\ cxPc = [t \in Threads |-> "idle"]
    /\ cxArg = [t \in Threads |-> NoCxArg]
    /\ cxRes = [t \in Threads |-> NoCxRes]
    /\ cxAcked = <<>>

\* No thread is in a call of the locks and channels alone.
SkIdle ==
    /\ skMode = "medium"
    /\ skMu = [m \in {"p", "l", "i"} |-> [w |-> NoThread, r |-> {}]]
    /\ skSteps = [t \in Threads |-> <<>>]
    /\ skQueue = 0

CxIdle ==
    /\ CxUnused
    /\ SkIdle
    /\ mm = NoMm
    /\ mmRes = NoMmRes

\* No Index is in use by itself.
NoIxRes == [op |-> "none", st |-> "ok", target |-> 0, entry |-> EmptyEntry]
IxIdle ==
    /\ index = [open |-> FALSE, ro |-> FALSE, buf |-> <<>>, mapped |-> 0]
    /\ ixFile = <<>>
    /\ ixTail = 0
    /\ ixLog = <<>>
    /\ ixBase = <<>>
    /\ ixRes = NoIxRes
    /\ ixOpens = 0
    /\ CxIdle

\* No AsyncWriter is in use by itself.
NoAwArg == [data |-> 0, before |-> {}, served |-> FALSE, late |-> FALSE, after |-> FALSE,
            full |-> FALSE]
NoAwRes == [op |-> "none", st |-> "ok", n |-> 0, served |-> FALSE, late |-> FALSE,
            after |-> FALSE, lost |-> {}, queued |-> 0, worker |-> "loop", full |-> FALSE]
AwIdle ==
    /\ awQueue = <<>>
    /\ awBuf = <<>>
    /\ awFile = <<>>
    /\ awDone = TRUE
    /\ awWorker = "exited"
    /\ awPc = [t \in Threads |-> "idle"]
    /\ awArg = [t \in Threads |-> NoAwArg]
    /\ awRes = [t \in Threads |-> NoAwRes]
    /\ awAcked = [t \in Threads |-> <<>>]
    /\ awSent = 0
    /\ awClosed = TRUE
    /\ awOrder = <<>>

PartIdle ==
    /\ p = [segments |-> <<>>]
    /\ dir = <<>>
    /\ aged = FALSE
    /\ phist = <<>>
    /\ pres = NoRes
    /\ ticks = 0
    /\ restarts = 0
    /\ others = {}
    /\ faults = 0

Init == SegInit /\ PartIdle /\ IxIdle /\ AwIdle
Next == SegNext
Spec == Init /\ [][Next]_vars
ShortSpec == Init /\ [][ShortNext]_vars

----------------------------------------------------------------------------
(* One segment on a file system that may fail the writes of the synchronous
   writeFunc. *)

\* What a failed writeFunc may leave on the file f of the record rec: nothing,
\* a part of it (writer.Write or writer.Flush failed), or all of it (in the
\* fully durable mode, f.Sync failed after the flush).
FailedWrites(f, lg, rec) ==
    {[file |-> f, werr |-> TRUE]}
    \cup {[file |-> Append(f, [rec EXCEPT !.present = c]), werr |-> TRUE] : c \in TornCuts(rec)}
    \cup (IF lg.mode = "full" THEN {[file |-> Append(f, rec), werr |-> FALSE]} ELSE {})

\* Log.Append when writeFunc returns an error: "error writing record", and
\* nothing else of the handle changes.  A bufio.Writer that has met an error
\* returns it ever after.
AppendWriteFails ==
    /\ l.open /\ ~IsReadOnly(l) /\ ~IsAsync
    /\ NoTornTail(file)
    /\ \/ /\ ~l.werr /\ faults < MaxFaults
          /\ \E payload \in Payloads :
                \E w \in FailedWrites(file, l, AppendRecord(l, payload)) :
                    /\ file' = w.file
                    /\ l' = [l EXCEPT !.werr = w.werr]
          /\ faults' = faults + 1
       \/ /\ l.werr
          /\ UNCHANGED <<file, l, faults>>
    /\ res' = [NoRes EXCEPT !.op = "append", !.st = "writeerr",
                            !.target = l.baseOffset + l.nextOffset]
    /\ UNCHANGED <<ixVars, awVars, p, dir, aged, phist, pres, ticks, restarts, others, idxFile,
                   queue, abuf, muW, muR, pc, arg, hist, origin, opens, touched, atOpen>>

\* Log.Append that returns success: the writer has met no error.
CountAppend == ~l.werr /\ LogAppendUpTo(MaxCountAppends)

CountNext ==
    \/ AppendReadOnly \/ CountAppend \/ AppendWriteFails
    \/ WorkerWrite \/ WorkerTick
    \/ LogClose \/ Crash \/ Reopen

CountSpec == Init /\ [][CountNext]_vars

----------------------------------------------------------------------------
(* One segment, created fresh, that takes appends until its file is longer
   than the greatest MemoryPos an index entry can hold. *)

\* Log.Append of an empty payload.
WideAppend ==
    /\ l.open /\ ~IsReadOnly(l)
    /\ Len(hist) < MaxWideAppends
    /\ AppendBody(<<>>)
    /\ UNCHANGED <<ixVars, awVars, partVars, abuf, muW, muR, pc, arg, origin, opens, atOpen>>

WideNext == WideAppend \/ WorkerWrite \/ WorkerTick

WideSpec == Init /\ [][WideNext]_vars

----------------------------------------------------------------------------
(* One segment, created fresh, in a run long enough for the index writer's
   buffer to fill, on a file system that may fail the index file's writes. *)

\* The payload of the k-th append: of 0, 1 or 2 bytes.
StridePayload(k) == [i \in 1..(k % 3) |-> 7]

\* The append is the one after which an index entry is written.
OnStride(lg) == StrideDue(lg.nextOffset + 1)

\* Log.Append that returns success, or, on a stride boundary of a handle whose
\* index writer has met an error, the index writer's error.
StrideAppend ==
    /\ l.open /\ ~IsReadOnly(l)
    /\ Len(hist) < MaxStrideAppends
    /\ LET payload == StridePayload(Len(hist)) IN
       IF OnStride(l) /\ l.index.werr
       THEN AppendBodyWith(payload, AppendAdvanceIndexErr(l, idxFile, payload), "indexerr")
       ELSE AppendBody(payload)
    /\ UNCHANGED <<ixVars, awVars, partVars, abuf, muW, muR, pc, arg, origin, opens, atOpen>>

\* Log.Append on a stride boundary with the index writer's buffer full: the
\* flush of the buffer to the index file fails and WriteEntry returns the error.
StrideAppendIndexFails ==
    /\ l.open /\ ~IsReadOnly(l)
    /\ Len(hist) < MaxStrideAppends
    /\ OnStride(l) /\ ~l.index.werr /\ Len(l.index.buf) >= IndexBufEntries
    /\ LET payload == StridePayload(Len(hist)) IN
       AppendBodyWith(payload, AppendAdvanceIndexErr(l, idxFile, payload), "indexerr")
    /\ UNCHANGED <<ixVars, awVars, partVars, abuf, muW, muR, pc, arg, origin, opens, atOpen>>

\* Log.FindRecord by a single caller.
StrideFind ==
    /\ l.open
    /\ \E target \in Stamped \cup {l.baseOffset + l.nextOffset} :
          LET s == IndexSync(l.index, idxFile)
              flushed == IF IsAsync THEN file \o abuf ELSE file
              r == FindRecord(l, flushed, idxFile, target)
          IN /\ l' = IF l.index.werr THEN l ELSE [l EXCEPT !.index = s.ix]
             /\ idxFile' = IF l.index.werr THEN idxFile ELSE s.ifile
             /\ file' = IF l.index.werr THEN file ELSE flushed
             /\ abuf' = IF IsAsync /\ ~l.index.werr THEN <<>> ELSE abuf
             /\ res' = [op |-> "find", st |-> r.st, target |-> target, rec |-> r.rec,
                        known |-> target \in Stamped]
    /\ UNCHANGED <<ixVars, awVars, partVars, queue, muW, muR, pc, arg, hist, origin, opens, touched, atOpen>>

\* Log.Close of a handle whose index writer has met no error.
StrideClose == ~l.index.werr /\ LogClose

StrideNext ==
    \/ StrideAppend \/ StrideAppendIndexFails \/ StrideFind
    \/ WorkerWrite \/ WorkerTick \/ StrideClose

StrideSpec == Init /\ [][StrideNext]_vars

----------------------------------------------------------------------------
(* The partition. *)

NameWidth == 15

RECURSIVE DecimalDigits(_)
DecimalDigits(n) == IF n < 10 THEN <<n>> ELSE Append(DecimalDigits(n \div 10), n % 10)

\* newLogNameFromInt: the number in decimal, zero-padded to 15 digits (".log"
\* follows; the index file has ".index" after it).
newLogNameFromInt(number) ==
    LET numberStr == DecimalDigits(number) IN
    [i \in 1..(NameWidth - Len(numberStr)) |-> 0] \o numberStr

\* logName.toInt: strconv.Atoi of the digits.
RECURSIVE toInt(_)
toInt(ln) == IF ln = <<>> THEN 0 ELSE 10 * toInt(SubSeq(ln, 1, Len(ln) - 1)) + ln[Len(ln)]

\* The names of a directory in the order os.ReadDir gives them: sorted by name,
\* which for names of one width is the order of their numbers.
RECURSIVE SortedNames(_)
SortedNames(names) ==
    IF names = {} THEN <<>>
    ELSE LET least == CHOOSE n \in names : \A m \in names : toInt(n) <= toInt(m)
         IN <<least>> \o SortedNames(names \ {least})

NoFiles == [log |-> <<>>, idx |-> <<>>]

\* The directory after os.OpenFile(..., O_CREATE, ...) of a segment and its index.
Created(d, name) ==
    IF name \in DOMAIN d THEN d
    ELSE [n \in DOMAIN d \cup {name} |-> IF n = name THEN NoFiles ELSE d[n]]

\* NewLogMediumDurable(filepath.Join(dir, name), base) in directory d.
NewLogMediumDurable(d, name, baseOffset) ==
    newLog(Created(d, name)[name].log, Created(d, name)[name].idx, baseOffset, "medium", FALSE)

\* A set as a sequence, in some order.
RECURSIVE SeqOf(_)
SeqOf(set) ==
    IF set = {} THEN <<>>
    ELSE LET x == CHOOSE y \in set : TRUE IN <<x>> \o SeqOf(set \ {x})

\* os.ReadDir of the directory: for each segment its file "<name>.log" and its
\* index "<name>.log.index", in the order of the names, and the other entries
\* o.  An entry is its name and what follows the name.
ReadDir(d, o) ==
    LET names == SortedNames(DOMAIN d) IN
    [i \in 1..(2 * Len(names)) |->
        [name |-> names[(i + 1) \div 2],
         ext |-> IF i % 2 = 1 THEN ".log" ELSE ".log.index"]]
    \o [i \in 1..Cardinality(o) |-> [name |-> SeqOf(o)[i], ext |-> ""]]

\* strings.HasSuffix(entry.Name(), ".log").
HasSuffixLog(entry) == entry.ext = ".log"

\* The Partition with no segment: what is left when NewPartition panics.
NoPartition ==
    [st |-> "panic", segments |-> <<>>,
     activeLog |-> [newLog(<<>>, <<>>, 0, "medium", FALSE) EXCEPT !.open = FALSE],
     activeLogName |-> <<>>, nextOffset |-> 0]

\* NewPartition on a directory with the segments d and the other entries o.
\* With entries but no ".log" entry, logNames[len(logNames)-1] is out of range.
NewPartition(d, o) ==
    LET logs == ReadDir(d, o)
        entries == SelectSeq(logs, HasSuffixLog)
        logNames == [i \in 1..Len(entries) |-> entries[i].name]
        activeLogName == IF Len(logs) = 0 THEN newLogNameFromInt(0)
                         ELSE logNames[Len(logNames)]
        segments == IF Len(logs) = 0
                    THEN <<[BaseOffset |-> toInt(activeLogName), Path |-> activeLogName]>>
                    ELSE [i \in 1..Len(logNames) |->
                             [BaseOffset |-> toInt(logNames[i]), Path |-> logNames[i]]]
        baseOffsetForActiveLog == toInt(activeLogName)
        activeLog == NewLogMediumDurable(d, activeLogName, baseOffsetForActiveLog)
    IN IF Len(logs) # 0 /\ logNames = <<>> THEN NoPartition
       ELSE [st |-> "ok",
             segments |-> segments,
             activeLog |-> activeLog,
             activeLogName |-> activeLogName,
             nextOffset |-> baseOffsetForActiveLog + activeLog.nextOffset]

\* The segments of the directory after NewPartition: the active segment's
\* files are there.
NewPartitionDir(d, o) ==
    IF NewPartition(d, o).st = "ok" THEN Created(d, NewPartition(d, o).activeLogName) ELSE d

\* A rotation that waits for one record more.
RotateDueLate == aged \/ p.activeLog.nextOffset > RotateLimit

\* Partition.rotate: the condition.
RotateDue == aged \/ p.activeLog.nextOffset >= RotateLimit

\* Partition.rotate with the new segment based at the partition's next offset.
RotateBaseNext(nextOffset) == nextOffset

\* Partition.rotate: the base offset of the new segment.
RotateBase(nextOffset) == nextOffset + 1

\* Log.Close of a synchronous handle whose files are d[name]: the index
\* writer is flushed.
Closed(d, name, lg) == [d EXCEPT ![name].idx = @ \o lg.index.buf]

\* Partition.rotate when due: the partition and the directory after it.
rotate(pt, d) ==
    LET d1 == Closed(d, pt.activeLogName, pt.activeLog)
        name == newLogNameFromInt(RotateBase(pt.nextOffset))
        baseOffsetForActiveLog == toInt(name)
        activeLog == NewLogMediumDurable(d1, name, baseOffsetForActiveLog)
    IN [p |-> [pt EXCEPT !.activeLogName = name,
                         !.activeLog = activeLog,
                         !.segments = Append(@, [BaseOffset |-> baseOffsetForActiveLog,
                                                 Path |-> name])],
        dir |-> Created(d1, name)]

\* sort.Search over the segments: the smallest i with BaseOffset > offset.
RECURSIVE SegSearch(_, _, _, _)
SegSearch(segments, offset, i, j) ==
    IF i >= j THEN i
    ELSE LET h == (i + j) \div 2 IN
         IF ~(segments[h + 1].BaseOffset > offset)
         THEN SegSearch(segments, offset, h + 1, j)
         ELSE SegSearch(segments, offset, i, h)

Max(a, b) == IF a >= b THEN a ELSE b

\* Partition.Read: the segment chosen, opened read-only, FindRecord, Close.
Read(pt, d, offset) ==
    LET nearestSegmentIdx == Max(SegSearch(pt.segments, offset, 0, Len(pt.segments)) - 1, 0)
        nearestSegment == pt.segments[nearestSegmentIdx + 1]
        f == d[nearestSegment.Path]
        lg == newLog(f.log, f.idx, nearestSegment.BaseOffset, "medium", TRUE)
    IN IF ~lg.open THEN [st |-> "openerr", rec |-> NoRecord]
       ELSE FindRecord(lg, f.log, f.idx, offset)

\* What the k-th call of Append is given: the tests' "data k".
PartPayloads(k) == {<<k>>}

\* The entries a directory may hold that the partition did not make.
Foreign == {"lost+found"}

\* NewPartition on a directory that is missing or empty, or that holds only
\* entries that are not segments.
PartInit ==
    /\ others \in {{}, Foreign}
    /\ faults = 0
    /\ dir = NewPartitionDir(<<>>, others)
    /\ p = NewPartition(<<>>, others)
    /\ aged = FALSE
    /\ phist = <<>>
    /\ pres = NoRes
    /\ ticks = 0
    /\ restarts = 0

SegIdle ==
    /\ l = [newLog(<<>>, <<>>, 0, "medium", FALSE) EXCEPT !.open = FALSE]
    /\ file = <<>>
    /\ idxFile = <<>>
    /\ queue = <<>>
    /\ abuf = <<>>
    /\ muW = NoThread
    /\ muR = {}
    /\ pc = [t \in Threads |-> "idle"]
    /\ arg = [t \in Threads |-> NoArg]
    /\ res = NoRes
    /\ hist = <<>>
    /\ origin = "fresh"
    /\ opens = 0
    /\ touched = FALSE
    /\ atOpen = AtOpen(<<>>, l, <<>>)

\* The handle takes appends: it is open and its buffered writer has met no
\* error (a bufio.Writer that met an error returns it from every later Write
\* and Flush).
Usable(lg) == lg.open /\ ~lg.werr

\* Partition.Append: rotate, activeLog.Append, nextOffset += 1.
PartitionAppendUpTo(n) ==
    /\ p.st = "ok" /\ Usable(p.activeLog)
    /\ Len(phist) < n
    /\ \E payload \in PartPayloads(Len(phist)) :
          LET r == IF RotateDue THEN rotate(p, dir) ELSE [p |-> p, dir |-> dir]
              name == r.p.activeLogName
              rec == AppendRecord(r.p.activeLog, payload)
              a == AppendAdvance(r.p.activeLog, r.dir[name].idx, payload)
          IN /\ p' = [r.p EXCEPT !.activeLog = a.lg, !.nextOffset = @ + 1]
             /\ dir' = [r.dir EXCEPT ![name] = [log |-> Append(@.log, rec), idx |-> a.ifile]]
             /\ phist' = Append(phist, [off |-> rec.off, payload |-> payload])
             /\ pres' = [NoRes EXCEPT !.op = "append", !.target = rec.off]
    /\ aged' = FALSE
    /\ UNCHANGED <<ixVars, awVars, segVars, ticks, restarts, others, faults>>

PartitionAppend == PartitionAppendUpTo(MaxPartAppends)

\* Partition.Read.
PartitionRead ==
    /\ p.st = "ok"
    /\ \E offset \in 0..(p.nextOffset + 1) :
          LET r == Read(p, dir, offset) IN
          pres' = [op |-> "read", st |-> r.st, target |-> offset, rec |-> r.rec,
                   known |-> offset \in {phist[i].off : i \in 1..Len(phist)}]
    /\ UNCHANGED <<ixVars, awVars, segVars, p, dir, aged, phist, ticks, restarts, others, faults>>

\* 24 hours pass since the active segment was created.
Tick ==
    /\ p.st = "ok"
    /\ ~aged /\ ticks < MaxTicks
    /\ aged' = TRUE
    /\ ticks' = ticks + 1
    /\ UNCHANGED <<ixVars, awVars, segVars, p, dir, phist, pres, restarts, others, faults>>

\* The process ends (what the active index's writer holds is lost) and
\* NewPartition opens the directory again.
PartitionRestart ==
    /\ restarts < MaxPartOpens
    /\ p' = NewPartition(dir, others)
    /\ dir' = NewPartitionDir(dir, others)
    /\ aged' = FALSE
    /\ pres' = NoRes
    /\ restarts' = restarts + 1
    /\ UNCHANGED <<ixVars, awVars, segVars, phist, ticks, others, faults>>

PartNext == PartitionAppend \/ PartitionRead \/ Tick \/ PartitionRestart

PartStart == SegIdle /\ PartInit /\ IxIdle /\ AwIdle

PartSpec == PartStart /\ [][PartNext]_vars

----------------------------------------------------------------------------
(* The partition on a file system whose operations may fail.  A failed write
   of a record is taken to have put nothing on the file. *)

\* p.activeLog after rotate's NewLogMediumDurable returned an error: nil.
NilLog == [newLog(<<>>, <<>>, 0, "medium", FALSE) EXCEPT !.open = FALSE, !.err = "nil"]

\* The result of a Partition call that returned the error st.
Failed(st) == [NoRes EXCEPT !.op = "append", !.st = st]

\* Partition.Append: rotate (when due) succeeds, and activeLog.Append's
\* writeFunc returns an error: the offset is not advanced.
PartitionAppendWriteFails ==
    /\ p.st = "ok" /\ Usable(p.activeLog) /\ faults < MaxFaults
    /\ LET r == IF RotateDue THEN rotate(p, dir) ELSE [p |-> p, dir |-> dir] IN
          /\ p' = [r.p EXCEPT !.activeLog.werr = TRUE]
          /\ dir' = r.dir
    /\ aged' = FALSE
    /\ pres' = Failed("writeerr")
    /\ faults' = faults + 1
    /\ UNCHANGED <<ixVars, awVars, segVars, phist, ticks, restarts, others>>

\* Partition.Append, rotate is due and activeLog.Close returns an error (the
\* index may or may not have been flushed): rotate returns it, the handle
\* stays in p.activeLog, closed.
PartitionRotateCloseFails ==
    /\ p.st = "ok" /\ Usable(p.activeLog) /\ faults < MaxFaults
    /\ RotateDue
    /\ p' = [p EXCEPT !.activeLog.open = FALSE]
    /\ dir' \in {dir, Closed(dir, p.activeLogName, p.activeLog)}
    /\ pres' = Failed("closeerr")
    /\ faults' = faults + 1
    /\ UNCHANGED <<ixVars, awVars, segVars, aged, phist, ticks, restarts, others>>

\* Partition.Append, rotate is due, activeLog.Close succeeds and
\* NewLogMediumDurable returns an error (os.OpenFile fails): p.activeLogName
\* is the new name already, p.activeLog is assigned nil, and rotate returns
\* before the segment is appended to p.segments.
PartitionRotateOpenFails ==
    /\ p.st = "ok" /\ Usable(p.activeLog) /\ faults < MaxFaults
    /\ RotateDue
    /\ p' = [p EXCEPT !.activeLogName = newLogNameFromInt(RotateBase(p.nextOffset)),
                      !.activeLog = NilLog]
    /\ dir' = Closed(dir, p.activeLogName, p.activeLog)
    /\ pres' = Failed("openerr")
    /\ faults' = faults + 1
    /\ UNCHANGED <<ixVars, awVars, segVars, aged, phist, ticks, restarts, others>>

\* Partition.Append on a handle that is closed or whose writer has met an
\* error: when rotate is due Close returns an error (the writer's, or that of
\* the closed files), otherwise writeFunc returns the writer's error.
PartitionAppendStuck ==
    /\ p.st = "ok" /\ ~Usable(p.activeLog) /\ p.activeLog.err # "nil"
    /\ IF RotateDue /\ p.activeLog.open
       THEN /\ p' = [p EXCEPT !.activeLog.open = FALSE]
            /\ dir' = Closed(dir, p.activeLogName, p.activeLog)
       ELSE UNCHANGED <<p, dir>>
    /\ pres' = Failed(IF RotateDue THEN "closeerr" ELSE "writeerr")
    /\ UNCHANGED <<ixVars, awVars, segVars, aged, phist, ticks, restarts, others, faults>>

\* Partition.Append when p.activeLog is nil: rotate reads
\* p.activeLog.createdAt, a nil pointer dereference.
PartitionAppendNil ==
    /\ p.st = "ok" /\ p.activeLog.err = "nil"
    /\ p' = [p EXCEPT !.st = "panic"]
    /\ pres' = Failed("panic")
    /\ UNCHANGED <<ixVars, awVars, segVars, dir, aged, phist, ticks, restarts, others, faults>>

PartFaultNext ==
    \/ PartitionAppendUpTo(MaxFaultAppends)
    \/ PartitionAppendWriteFails \/ PartitionRotateCloseFails \/ PartitionRotateOpenFails
    \/ PartitionAppendStuck \/ PartitionAppendNil
    \/ PartitionRead \/ Tick \/ PartitionRestart

PartFaultSpec == PartStart /\ [][PartFaultNext]_vars

----------------------------------------------------------------------------
(* One open segment used by several threads at once. *)

\* Log.Append: l.mu.Lock().
TAppendLock(t) ==
    /\ pc[t] = "idle" /\ l.open /\ ~l.readOnly
    /\ muW = NoThread /\ muR = {}
    /\ Len(hist) + Cardinality({u \in Threads : pc[u] = "append"}) < MaxConcAppends
    /\ arg' = [arg EXCEPT ![t] = [NoArg EXCEPT !.payload = <<7>>]]
    /\ muW' = t
    /\ pc' = [pc EXCEPT ![t] = "append"]
    /\ UNCHANGED <<ixVars, awVars, partVars, l, file, idxFile, queue, abuf, muR, res, hist, origin, opens, touched, atOpen>>

\* Log.Append under the lock, and Unlock.
TAppend(t) ==
    /\ pc[t] = "append" /\ muW = t
    /\ AppendBody(arg[t].payload)
    /\ muW' = NoThread
    /\ pc' = [pc EXCEPT ![t] = "idle"]
    /\ arg' = [arg EXCEPT ![t] = NoArg]
    /\ UNCHANGED <<ixVars, awVars, partVars, abuf, muR, origin, opens, atOpen>>

\* FindRecord: l.mu.RLock().  known: the Append stamped with the target has
\* returned before the call began.
TFindLock(t) ==
    /\ pc[t] = "idle" /\ l.open
    /\ muW = NoThread
    /\ \E target \in Stamped \cup {l.baseOffset + l.nextOffset} :
          arg' = [arg EXCEPT ![t] = [NoArg EXCEPT !.target = target,
                                                    !.known = target \in Stamped]]
    /\ muR' = muR \cup {t}
    /\ pc' = [pc EXCEPT ![t] = "find_nearest"]
    /\ UNCHANGED <<ixVars, awVars, partVars, l, file, idxFile, queue, abuf, muW, res, hist, origin, opens, touched, atOpen>>

\* Index.FindNearest: under the index's lock flush its writer and sync the
\* mapping, then search the mapping.
TFindNearest(t) ==
    /\ pc[t] = "find_nearest"
    /\ LET s == IndexSync(l.index, idxFile) IN
          /\ l' = [l EXCEPT !.index = s.ix]
          /\ idxFile' = s.ifile
          /\ arg' = [arg EXCEPT ![t].entry =
                        FindNearestSearch(s.ix, s.ifile, ToUint32(arg[t].target))]
    /\ pc' = [pc EXCEPT ![t] = "find_flush"]
    /\ UNCHANGED <<ixVars, awVars, partVars, file, queue, abuf, muW, muR, res, hist, origin, opens, touched, atOpen>>

\* scanFrom: flushFunc of an asynchronous handle.  AsyncWriter.Flush hands the
\* request to the worker, whose select takes it whatever the queue holds, and
\* the worker flushes its buffered writer and replies.
TWorkerFlush(t) ==
    /\ pc[t] = "find_flush" /\ IsAsync
    /\ file' = file \o abuf
    /\ abuf' = <<>>
    /\ pc' = [pc EXCEPT ![t] = "find_scan"]
    /\ UNCHANGED <<ixVars, awVars, partVars, l, idxFile, queue, muW, muR, arg, res, hist, origin, opens, touched, atOpen>>

\* scanFrom: the loop with FindRecord's handler (after the flushFunc of a
\* synchronous handle, which has nothing buffered), and RUnlock.
TFindScan(t) ==
    /\ \/ pc[t] = "find_flush" /\ ~IsAsync
       \/ pc[t] = "find_scan"
    /\ LET s == ScanFind(file, l.nextMemoryPos, arg[t].entry.MemoryPos, arg[t].target) IN
          res' = [op |-> "find", st |-> s.st, target |-> arg[t].target,
                  rec |-> IF s.st \in {"ok", "loaderr"} THEN s.rec ELSE NoRecord,
                  known |-> arg[t].known]
    /\ muR' = muR \ {t}
    /\ pc' = [pc EXCEPT ![t] = "idle"]
    /\ arg' = [arg EXCEPT ![t] = NoArg]
    /\ UNCHANGED <<ixVars, awVars, partVars, l, file, idxFile, queue, abuf, muW, hist, origin, opens, touched, atOpen>>

ConcNext ==
    \/ \E t \in Threads :
          \/ TAppendLock(t) \/ TAppend(t)
          \/ TFindLock(t) \/ TFindNearest(t) \/ TWorkerFlush(t) \/ TFindScan(t)
    \/ WorkerWrite \/ WorkerTick

ConcSpec == Init /\ [][ConcNext]_vars

----------------------------------------------------------------------------
(* An Index used by itself: NewIndex, WriteEntry, FindNearest, LastEntry,
   Flush, Close, and the end of the process without Close. *)

\* The entry WriteEntry is given after n others: keys grow as Log.Append's do.
IxEntries(n) == {[LogicalOff |-> n + 1, MemoryPos |-> 10 * (n + 1)]}

\* The size of the index file in bytes.
IxSize(ifile, tail) == Len(ifile) * entryWidth + tail

\* NewIndex with the file kept as it is.
KeptSize(size) == size

\* NewIndex: the size the file is truncated to.
TruncatedSize(size) == IF size % entryWidth # 0 THEN size - (size % entryWidth) ELSE size

\* The handle of the Index used by itself.
IxHandle(ixr) == [open |-> TRUE, ro |-> ixr.ro, buf |-> ixr.buf, mapped |-> ixr.mapped]

\* NewIndex on the file: the torn tail is truncated, the file is mapped.  ro:
\* the call is NewLogReadOnly's; op is what the result is recorded as.
NewIndexCall(ro, op) ==
    /\ ~index.open /\ ixOpens < MaxIxOpens
    /\ LET size == IxSize(ixFile, ixTail)
           newSize == TruncatedSize(size)
           k == size \div entryWidth
       IN /\ ixFile' = SubSeq(ixFile, 1, newSize \div entryWidth)
          /\ ixTail' = newSize % entryWidth
          /\ index' = [open |-> TRUE, ro |-> ro, buf |-> <<>>, mapped |-> newSize]
          /\ ixRes' = [op |-> op, st |-> "ok", target |-> size,
                       entry |-> IF k = 0 THEN EmptyEntry ELSE ixFile[k]]
    /\ ixBase' = ixFile'
    /\ ixLog' = <<>>
    /\ ixOpens' = ixOpens + 1
    /\ UNCHANGED <<segVars, partVars, awVars, cxVars>>

\* newLog: NewIndex(indexPath).
IxOpen == NewIndexCall(FALSE, "open")

\* NewLogReadOnly: NewIndex(indexPath), the same call.
IxOpenReadOnly == NewIndexCall(TRUE, "openro")

\* Index.WriteEntry.
IxWriteEntry ==
    /\ index.open /\ ~index.ro /\ Len(ixLog) < MaxIxWrites
    /\ \E entry \in IxEntries(Len(ixBase) + Len(ixLog)) :
          LET w == WriteEntry(index, ixFile, entry) IN
          /\ index' = w.ix
          /\ ixFile' = w.ifile
          /\ ixLog' = Append(ixLog, entry)
          /\ ixRes' = [op |-> "write", st |-> "ok", target |-> 0, entry |-> entry]
    /\ UNCHANGED <<segVars, partVars, awVars, cxVars, ixTail, ixBase, ixOpens>>

\* Index.FindNearest.
IxFindNearest ==
    /\ index.open
    /\ \E t \in 0..(Len(ixBase) + Len(ixLog) + 1) :
          LET s == IndexSync(index, ixFile) IN
          /\ index' = IxHandle(s.ix)
          /\ ixFile' = s.ifile
          /\ ixRes' = [op |-> "nearest", st |-> "ok", target |-> t,
                       entry |-> FindNearestSearch(s.ix, s.ifile, t)]
    /\ UNCHANGED <<segVars, partVars, awVars, cxVars, ixTail, ixLog, ixBase, ixOpens>>

\* Index.LastEntry.
IxLastEntry ==
    /\ index.open
    /\ LET s == IndexSync(index, ixFile) IN
          /\ index' = IxHandle(s.ix)
          /\ ixFile' = s.ifile
          /\ ixRes' = [op |-> "last", st |-> "ok", target |-> 0,
                       entry |-> LastEntrySearch(s.ix, s.ifile)]
    /\ UNCHANGED <<segVars, partVars, awVars, cxVars, ixTail, ixLog, ixBase, ixOpens>>

\* Index.Flush: the writer is flushed, the mapping stays.
IxFlush ==
    /\ index.open
    /\ ixFile' = ixFile \o index.buf
    /\ index' = [index EXCEPT !.buf = <<>>]
    /\ ixRes' = [NoIxRes EXCEPT !.op = "flush"]
    /\ UNCHANGED <<segVars, partVars, awVars, cxVars, ixTail, ixLog, ixBase, ixOpens>>

\* Index.Close: writer.Flush, file.Sync, reader.Close, file.Close.
IxClose ==
    /\ index.open
    /\ ixFile' = ixFile \o index.buf
    /\ index' = [open |-> FALSE, ro |-> FALSE, buf |-> <<>>, mapped |-> 0]
    /\ ixRes' = [NoIxRes EXCEPT !.op = "close"]
    /\ UNCHANGED <<segVars, partVars, awVars, cxVars, ixTail, ixLog, ixBase, ixOpens>>

\* The process ends without Close, perhaps in the middle of a flush: some of
\* the buffered entries are on the file, the next one perhaps in part.
IxCrash ==
    /\ index.open
    /\ \E j \in 0..Len(index.buf), r \in 0..(entryWidth - 1) :
          /\ r > 0 => j < Len(index.buf)
          /\ ixFile' = ixFile \o SubSeq(index.buf, 1, j)
          /\ ixTail' = r
    /\ index' = [open |-> FALSE, ro |-> FALSE, buf |-> <<>>, mapped |-> 0]
    /\ ixRes' = [NoIxRes EXCEPT !.op = "crash"]
    /\ UNCHANGED <<segVars, partVars, awVars, cxVars, ixLog, ixBase, ixOpens>>

IxInit ==
    /\ index = [open |-> TRUE, ro |-> FALSE, buf |-> <<>>, mapped |-> 0]
    /\ ixFile = <<>>
    /\ ixTail = 0
    /\ ixLog = <<>>
    /\ ixBase = <<>>
    /\ ixRes = [NoIxRes EXCEPT !.op = "open"]
    /\ ixOpens = 0
    /\ CxIdle

IxStart == SegIdle /\ PartIdle /\ IxInit /\ AwIdle

IxNext ==
    \/ IxOpen \/ IxOpenReadOnly \/ IxWriteEntry \/ IxFindNearest \/ IxLastEntry
    \/ IxFlush \/ IxClose \/ IxCrash

IdxSpec == IxStart /\ [][IxNext]_vars

\* The errors Index.Close returns, by the phase that failed.
CloseErrs == {"flusherr", "syncerr", "readererr", "fileerr"}

\* Index.Close when one of its phases fails.  After an error of writer.Flush,
\* of file.Sync or of reader.Close (the munmap of a mapping) it returns at
\* once; file.Close is the last phase.
IxCloseFails ==
    /\ index.open /\ ixRes.st \notin CloseErrs
    /\ \E phase \in CloseErrs :
          /\ phase = "readererr" => index.mapped > 0
          /\ ixFile' = IF phase = "flusherr" THEN ixFile ELSE ixFile \o index.buf
          /\ index' = IF phase = "flusherr" THEN index
                      ELSE IF phase = "fileerr" THEN [open |-> FALSE, ro |-> FALSE, buf |-> <<>>, mapped |-> 0]
                      ELSE [index EXCEPT !.buf = <<>>]
          /\ ixRes' = [NoIxRes EXCEPT !.op = "close", !.st = phase]
    /\ UNCHANGED <<segVars, partVars, awVars, cxVars, ixTail, ixLog, ixBase, ixOpens>>

\* The Index is used as long as Close has not failed.
IxWorks == ixRes.st \notin CloseErrs /\ IxNext

IxFaultNext == IxWorks \/ IxCloseFails

IdxFaultSpec == IxStart /\ [][IxFaultNext]_vars

----------------------------------------------------------------------------
(* An Index shared by threads.  Index.mu is a sync.RWMutex: cxMu.w is the
   thread inside Lock..Unlock, cxMu.r the threads inside RLock..RUnlock.
   reader.data is [len, live]: len is len(m.data) in bytes, live is FALSE
   between the Munmap of the old view and the assignment of the new one. *)

\* The entries of IndexBufEntries WriteEntry calls: they fill the buffer.
cxBefore == [k \in 1..IndexBufEntries |-> CHOOSE e \in IxEntries(k - 1) : TRUE]

\* A Lock that does not wait for the readers to leave.
CanLockOverReaders(mu) == mu.w = NoThread

\* sync.RWMutex.Lock returns when no thread holds the lock in either way.
CanLock(mu) == mu.w = NoThread /\ mu.r = {}

\* sync.RWMutex.RLock returns when no thread holds the lock for writing.
CanRLock(mu) == mu.w = NoThread

\* The threads' calls return: the lock is given back.
Unlocked == [cxMu EXCEPT !.w = NoThread]

\* Index.WriteEntry: i.mu.Lock().
CxWriteLock(t) ==
    /\ cxPc[t] = "idle" /\ CanLock(cxMu) /\ Len(cxAcked) < Len(cxBefore) + MaxCxWrites
    /\ cxMu' = [cxMu EXCEPT !.w = t]
    /\ cxPc' = [cxPc EXCEPT ![t] = "write"]
    /\ cxArg' = [cxArg EXCEPT ![t] = [NoCxArg EXCEPT !.op = "write"]]
    /\ cxRes' = [cxRes EXCEPT ![t] = NoCxRes]
    /\ UNCHANGED <<segVars, partVars, awVars, index, ixFile, ixTail, ixLog, ixBase, ixRes,
                   ixOpens, cx, cxAcked, mm, mmRes, skVars>>

\* Index.WriteEntry: writer.Write and the deferred Unlock.  On a closed file
\* the entry is taken as long as the buffer has room for it.
CxWriteEntry(t) ==
    /\ cxPc[t] = "write"
    /\ LET entry == CHOOSE e \in IxEntries(Len(cxAcked)) : TRUE
           fails == cx.werr \/ (cx.closed /\ Len(cx.buf) >= IndexBufEntries)
           w == IF fails THEN WriteEntryFailed(cx, cx.file, entry)
                ELSE WriteEntry(cx, cx.file, entry)
       IN /\ cx' = [w.ix EXCEPT !.file = w.ifile]
          /\ cxAcked' = IF fails THEN cxAcked ELSE Append(cxAcked, entry)
          /\ cxRes' = [cxRes EXCEPT ![t] = [NoCxRes EXCEPT !.op = "write", !.entry = entry,
                                                           !.st = IF fails THEN "err" ELSE "ok"]]
    /\ cxMu' = Unlocked
    /\ cxPc' = [cxPc EXCEPT ![t] = "idle"]
    /\ cxArg' = [cxArg EXCEPT ![t] = NoCxArg]
    /\ UNCHANGED <<segVars, partVars, awVars, index, ixFile, ixTail, ixLog, ixBase, ixRes,
                   ixOpens, mm, mmRes, skVars>>

\* Index.FindNearest and Index.LastEntry: i.mu.Lock(), the first statement of
\* the call.  seen is the number of entries acknowledged before it, inbuf
\* says that entries are in the writer's buffer, past that the file is longer
\* than the mapping.
CxLock(t) ==
    /\ cxPc[t] = "idle" /\ CanLock(cxMu)
    /\ \E op \in {"nearest", "last"}, target \in {0, Len(cxAcked), Len(cxAcked) + 1} :
          /\ op = "last" => target = 0
          /\ cxArg' = [cxArg EXCEPT ![t] = [op |-> op, target |-> target, seen |-> Len(cxAcked),
                                            inbuf |-> cx.buf # <<>>,
                                            past |-> Len(cx.file) * entryWidth > cx.data.len,
                                            n |-> 0]]
    /\ cxMu' = [cxMu EXCEPT !.w = t]
    /\ cxPc' = [cxPc EXCEPT ![t] = "sync"]
    /\ cxRes' = [cxRes EXCEPT ![t] = NoCxRes]
    /\ UNCHANGED <<segVars, partVars, awVars, index, ixFile, ixTail, ixLog, ixBase, ixRes,
                   ixOpens, cx, cxAcked, mm, mmRes, skVars>>

\* The result of a lookup that returns the error of its exclusive section.
SyncFailed(a) == [NoCxRes EXCEPT !.op = a.op, !.st = "err", !.target = a.target,
                                 !.seen = a.seen, !.inbuf = a.inbuf]

\* FindNearest and LastEntry under the lock: writer.Flush, then reader.Sync
\* up to the Munmap of the old view.  When the file is not longer than the
\* mapping Sync returns and the lock is given back; an empty mapping is
\* replaced at once.  On a closed file Flush or Stat fails.
CxFlushSync(t) ==
    /\ cxPc[t] = "sync"
    /\ LET flushed == cx.file \o cx.buf
           len == MmapSync(cx.data.len, flushed)
       IN IF cx.closed \/ cx.werr
          THEN /\ cxRes' = [cxRes EXCEPT ![t] = SyncFailed(cxArg[t])]
               /\ cxPc' = [cxPc EXCEPT ![t] = "idle"]
               /\ cxArg' = [cxArg EXCEPT ![t] = NoCxArg]
               /\ cxMu' = Unlocked
               /\ UNCHANGED cx
          ELSE IF len # cx.data.len /\ cx.data.len > 0
          THEN /\ cx' = [cx EXCEPT !.buf = <<>>, !.file = flushed, !.data.live = FALSE]
               /\ cxPc' = [cxPc EXCEPT ![t] = "remap"]
               /\ UNCHANGED <<cxMu, cxRes, cxArg>>
          ELSE /\ cx' = [cx EXCEPT !.buf = <<>>, !.file = flushed, !.data.len = len]
               /\ cxPc' = [cxPc EXCEPT ![t] = "search"]
               /\ cxMu' = Unlocked
               /\ UNCHANGED <<cxRes, cxArg>>
    /\ UNCHANGED <<segVars, partVars, awVars, index, ixFile, ixTail, ixLog, ixBase, ixRes,
                   ixOpens, cxAcked, mm, mmRes, skVars>>

\* reader.Sync after the Munmap: syscall.Mmap of the whole file, m.data = data,
\* and the Unlock.
CxRemap(t) ==
    /\ cxPc[t] = "remap"
    /\ cx' = [cx EXCEPT !.data = [len |-> MmapSync(cx.data.len, cx.file), live |-> TRUE]]
    /\ cxMu' = Unlocked
    /\ cxPc' = [cxPc EXCEPT ![t] = "search"]
    /\ UNCHANGED <<segVars, partVars, awVars, index, ixFile, ixTail, ixLog, ixBase, ixRes,
                   ixOpens, cxArg, cxRes, cxAcked, mm, mmRes, skVars>>

\* FindNearest and LastEntry: i.mu.RLock() and the read of reader.Size().
CxRLock(t) ==
    /\ cxPc[t] = "search" /\ CanRLock(cxMu)
    /\ cxMu' = [cxMu EXCEPT !.r = @ \cup {t}]
    /\ cxArg' = [cxArg EXCEPT ![t].n = cx.data.len]
    /\ cxPc' = [cxPc EXCEPT ![t] = "read"]
    /\ UNCHANGED <<segVars, partVars, awVars, index, ixFile, ixTail, ixLog, ixBase, ixRes,
                   ixOpens, cx, cxRes, cxAcked, mm, mmRes, skVars>>

\* The mapping a reader computed its entry count from is the one it reads.
Stable(a) == cx.data.live /\ cx.data.len = a.n

\* FindNearest and LastEntry: the search over the mapping and the deferred
\* RUnlock.  A read through a view that was unmapped or replaced meanwhile
\* is a fault of the process or yields what the memory holds.
CxRead(t) ==
    /\ cxPc[t] = "read"
    /\ LET a == cxArg[t]
           view == [mapped |-> a.n]
           entry == IF a.op = "nearest" THEN FindNearestSearch(view, cx.file, a.target)
                    ELSE LastEntrySearch(view, cx.file)
       IN \E st \in (IF Stable(a) THEN {"ok"} ELSE {"ok", "fault"}) :
             cxRes' = [cxRes EXCEPT ![t] = [op |-> a.op, st |-> st, target |-> a.target,
                                           seen |-> a.seen, inbuf |-> a.inbuf,
                                           grew |-> a.past,
                                           entry |-> IF st = "ok" THEN entry ELSE EmptyEntry]]
    /\ cxMu' = [cxMu EXCEPT !.r = @ \ {t}]
    /\ cxPc' = [cxPc EXCEPT ![t] = "idle"]
    /\ cxArg' = [cxArg EXCEPT ![t] = NoCxArg]
    /\ UNCHANGED <<segVars, partVars, awVars, index, ixFile, ixTail, ixLog, ixBase, ixRes,
                   ixOpens, cx, cxAcked, mm, mmRes, skVars>>

\* Index.Close: i.mu.Lock().
CxCloseLock(t) ==
    /\ cxPc[t] = "idle" /\ CanLock(cxMu)
    /\ cxMu' = [cxMu EXCEPT !.w = t]
    /\ cxPc' = [cxPc EXCEPT ![t] = "close"]
    /\ cxArg' = [cxArg EXCEPT ![t] = [NoCxArg EXCEPT !.op = "close"]]
    /\ cxRes' = [cxRes EXCEPT ![t] = NoCxRes]
    /\ UNCHANGED <<segVars, partVars, awVars, index, ixFile, ixTail, ixLog, ixBase, ixRes,
                   ixOpens, cx, cxAcked, mm, mmRes, skVars>>

\* Index.Close under the lock: writer.Flush, file.Sync, reader.Close (Munmap,
\* m.data = nil), file.Close, and the deferred Unlock.  On a closed file
\* Flush or file.Sync fails.
CxClose(t) ==
    /\ cxPc[t] = "close"
    /\ IF cx.closed \/ cx.werr
       THEN /\ cxRes' = [cxRes EXCEPT ![t] = [NoCxRes EXCEPT !.op = "close", !.st = "err"]]
            /\ UNCHANGED cx
       ELSE /\ cxRes' = [cxRes EXCEPT ![t] = [NoCxRes EXCEPT !.op = "close"]]
            /\ cx' = [cx EXCEPT !.buf = <<>>, !.file = cx.file \o cx.buf, !.data = NoData,
                                !.closed = TRUE]
    /\ cxMu' = Unlocked
    /\ cxPc' = [cxPc EXCEPT ![t] = "idle"]
    /\ cxArg' = [cxArg EXCEPT ![t] = NoCxArg]
    /\ UNCHANGED <<segVars, partVars, awVars, index, ixFile, ixTail, ixLog, ixBase, ixRes,
                   ixOpens, cxAcked, mm, mmRes, skVars>>

\* NewIndex on a new file, the handle given to the threads: at once, or after
\* a first thread has filled the writer's buffer with WriteEntry calls.
CxInit ==
    /\ \E before \in {<<>>, cxBefore} :
          /\ cx = [buf |-> before, file |-> <<>>, data |-> NoData, werr |-> FALSE,
                   closed |-> FALSE]
          /\ cxAcked = before
    /\ cxMu = [w |-> NoThread, r |-> {}]
    /\ cxPc = [t \in Threads |-> "idle"]
    /\ cxArg = [t \in Threads |-> NoCxArg]
    /\ cxRes = [t \in Threads |-> NoCxRes]
    /\ mm = NoMm
    /\ mmRes = NoMmRes
    /\ SkIdle

\* The Index by itself is idle while the threads share theirs.
IxUnused ==
    /\ index = [open |-> FALSE, ro |-> FALSE, buf |-> <<>>, mapped |-> 0]
    /\ ixFile = <<>> /\ ixTail = 0 /\ ixLog = <<>> /\ ixBase = <<>>
    /\ ixRes = NoIxRes /\ ixOpens = 0

CxStart == SegIdle /\ PartIdle /\ IxUnused /\ CxInit /\ AwIdle

CxNext ==
    \E t \in Threads :
        \/ CxWriteLock(t) \/ CxWriteEntry(t)
        \/ CxLock(t) \/ CxFlushSync(t) \/ CxRemap(t) \/ CxRLock(t) \/ CxRead(t)
        \/ CxCloseLock(t) \/ CxClose(t)

CxSpec == CxStart /\ [][CxNext]_vars

----------------------------------------------------------------------------
(* A MmapStore used by itself, over a file that another handle appends to.
   mm.size is the size of the file, mm.data is m.data; mm.failed says that
   the last Sync failed while it was replacing the mapping. *)

\* The result of a Sync that found the file size bytes long and m.data as had.
SyncRes(st) == [NoMmRes EXCEPT !.op = "sync", !.st = st, !.size = mm.size, !.had = mm.data]

\* MmapStore.Sync has a mapping to replace.
Grown == mm.size > mm.data.len

\* The writer's handle appends bytes to the file.
MmGrow ==
    /\ \E k \in {1, entryWidth} :
          /\ mm.size + k <= MaxMmBytes
          /\ mm' = [mm EXCEPT !.size = @ + k]
    /\ mmRes' = [NoMmRes EXCEPT !.op = "grow"]
    /\ UNCHANGED <<segVars, partVars, awVars, index, ixFile, ixTail, ixLog, ixBase, ixRes,
                   ixOpens, cx, cxMu, cxPc, cxArg, cxRes, cxAcked, skVars>>

\* MmapStore.Sync when every call it makes succeeds.
MmSync ==
    /\ mm' = [mm EXCEPT !.data = [len |-> IF Grown THEN mm.size ELSE @.len, live |-> TRUE],
                        !.failed = FALSE]
    /\ mmRes' = SyncRes("ok")
    /\ UNCHANGED <<segVars, partVars, awVars, index, ixFile, ixTail, ixLog, ixBase, ixRes,
                   ixOpens, cx, cxMu, cxPc, cxArg, cxRes, cxAcked, skVars>>

\* MmapStore.Sync when m.file.Stat fails: it returns the error.
MmSyncStatFails ==
    /\ mm.faults < MaxFaults
    /\ mm' = [mm EXCEPT !.faults = @ + 1]
    /\ mmRes' = SyncRes("staterr")
    /\ UNCHANGED <<segVars, partVars, awVars, index, ixFile, ixTail, ixLog, ixBase, ixRes,
                   ixOpens, cx, cxMu, cxPc, cxArg, cxRes, cxAcked, skVars>>

\* MmapStore.Sync when syscall.Munmap of the old view fails: it returns the
\* error, m.data is the slice it was.
MmSyncMunmapFails ==
    /\ mm.faults < MaxFaults /\ Grown /\ mm.data.len > 0
    /\ mm' = [mm EXCEPT !.faults = @ + 1, !.failed = TRUE]
    /\ mmRes' = SyncRes("munmaperr")
    /\ UNCHANGED <<segVars, partVars, awVars, index, ixFile, ixTail, ixLog, ixBase, ixRes,
                   ixOpens, cx, cxMu, cxPc, cxArg, cxRes, cxAcked, skVars>>

\* MmapStore.Sync when syscall.Mmap fails: m.data = nil.
MmSyncMmapFails ==
    /\ mm.faults < MaxFaults /\ Grown
    /\ mm' = [mm EXCEPT !.faults = @ + 1, !.failed = TRUE, !.data = NoData]
    /\ mmRes' = SyncRes("remaperr")
    /\ UNCHANGED <<segVars, partVars, awVars, index, ixFile, ixTail, ixLog, ixBase, ixRes,
                   ixOpens, cx, cxMu, cxPc, cxArg, cxRes, cxAcked, skVars>>

\* MmapStore.ReadAt.
ReadAt(data, offset, length) ==
    IF data = NoData THEN "empty"
    ELSE IF offset + length > data.len THEN "oob"
    ELSE "ok"

MmReadAt ==
    /\ \E offset \in {0, entryWidth}, length \in {1, entryWidth} :
          mmRes' = [NoMmRes EXCEPT !.op = "read", !.st = ReadAt(mm.data, offset, length),
                                   !.off = offset, !.len = length, !.had = mm.data]
    /\ UNCHANGED <<segVars, partVars, awVars, index, ixFile, ixTail, ixLog, ixBase, ixRes,
                   ixOpens, cx, cxMu, cxPc, cxArg, cxRes, cxAcked, mm, skVars>>

\* NewMmapStore on an empty file and on a file of one entry.
MmInit ==
    /\ \E size \in {0, entryWidth} :
          mm = [NoMm EXCEPT !.size = size, !.data = [len |-> size, live |-> TRUE]]
    /\ mmRes = NoMmRes

MmStart == SegIdle /\ PartIdle /\ IxUnused /\ CxUnused /\ MmInit /\ SkIdle /\ AwIdle

MmNext ==
    \/ MmGrow \/ MmSync \/ MmSyncStatFails \/ MmSyncMunmapFails \/ MmSyncMmapFails
    \/ MmReadAt

MmapSpec == MmStart /\ [][MmNext]_vars

----------------------------------------------------------------------------
(* The locks and channels alone.  Every call is the sequence of the lock,
   unlock, send and flush steps its code takes, in the code's order, with
   the data left out: Partition.mu is "p", Log.mu of the segment is "l",
   Index.mu of its index is "i".  A partition's active segment is opened by
   NewLogMediumDurable, whose writeFunc and flushFunc use no channel; a
   segment opened by NewLogAsync sends to the AsyncWriter's queue and asks
   its worker to flush.  The read-only handle Partition.Read opens has a
   Log.mu and an Index.mu no other goroutine can reach, so its steps never
   wait and are left out.  sync.RWMutex: a writer that has called Lock keeps
   new readers out and waits for the readers inside to leave. *)

\* Lock: the writer enters, then waits for the readers to leave.
LockSteps(m) == <<[k |-> "lock", m |-> m], [k |-> "locked", m |-> m]>>

UnlockSteps(m) == <<[k |-> "unlock", m |-> m]>>

RLockSteps(m) == <<[k |-> "rlock", m |-> m]>>

RUnlockSteps(m) == <<[k |-> "runlock", m |-> m]>>

\* AsyncWriter.Write: the send on the queue channel.
WriteSteps == <<[k |-> "send", m |-> "queue"]>>

\* AsyncWriter.Flush: the send on flushReq and the wait for the answer.
FlushSteps == <<[k |-> "flush", m |-> "flushReq"]>>

WriteEntrySteps == LockSteps("i") \o UnlockSteps("i")

\* FindNearest with the exclusive section unlocked by a defer of the whole
\* function: the shared section begins while the lock is still held.
FindNearestDeferredSteps == LockSteps("i") \o RLockSteps("i") \o RUnlockSteps("i") \o UnlockSteps("i")

\* Index.FindNearest and Index.LastEntry: flush and re-map under the
\* exclusive lock, release it, search under the shared lock.
FindNearestSteps == LockSteps("i") \o UnlockSteps("i") \o RLockSteps("i") \o RUnlockSteps("i")

IndexCloseSteps == LockSteps("i") \o UnlockSteps("i")

NextOffsetSteps == RLockSteps("l") \o RUnlockSteps("l")

WriteFuncSteps(mode) == IF mode = "async" THEN WriteSteps ELSE <<>>

FlushFuncSteps(mode) == IF mode = "async" THEN FlushSteps ELSE <<>>

\* Log.Append; onStride: this record gets an index entry.
AppendSteps(mode, onStride) ==
    LockSteps("l") \o WriteFuncSteps(mode) \o (IF onStride THEN WriteEntrySteps ELSE <<>>) \o UnlockSteps("l")

\* Log.FindRecord: index.FindNearest, then scanFrom, which calls flushFunc.
FindRecordSteps(mode) == RLockSteps("l") \o FindNearestSteps \o FlushFuncSteps(mode) \o RUnlockSteps("l")

\* Log.Close of a medium-durable segment.
CloseSteps == LockSteps("l") \o IndexCloseSteps \o UnlockSteps("l")

\* Partition.rotate: by age (NextOffset is not called), by count, or not due.
RotateSteps(due) ==
    CASE due = "age" -> CloseSteps
      [] due = "count" -> NextOffsetSteps \o CloseSteps
      [] OTHER -> NextOffsetSteps

PartitionAppendSteps(due, onStride) ==
    LockSteps("p") \o RotateSteps(due) \o AppendSteps("medium", onStride) \o UnlockSteps("p")

PartitionReadSteps == RLockSteps("p") \o RUnlockSteps("p")

\* The calls a goroutine can make, given the mode of the segment.
SkCalls(mode) ==
    {AppendSteps(mode, s) : s \in BOOLEAN}
    \cup {FindRecordSteps(mode), NextOffsetSteps, WriteEntrySteps, FindNearestSteps}
    \cup (IF mode = "async"
          THEN {WriteSteps, FlushSteps}
          ELSE {PartitionReadSteps}
               \cup {PartitionAppendSteps(d, s) : d \in {"age", "count", "no"}, s \in BOOLEAN})

\* The step thread t is at.
SkAt(t, k) == skSteps[t] # <<>> /\ Head(skSteps[t]).k = k

SkMutex(t) == Head(skSteps[t]).m

SkReturn(t) == skSteps' = [skSteps EXCEPT ![t] = Tail(@)]

SkRest == UNCHANGED <<segVars, partVars, awVars, index, ixFile, ixTail, ixLog, ixBase,
                      ixRes, ixOpens, cx, cxMu, cxPc, cxArg, cxRes, cxAcked, mm, mmRes,
                      skMode>>

\* A goroutine starts a call.
SkCall(t) ==
    /\ skSteps[t] = <<>>
    /\ \E c \in SkCalls(skMode) : skSteps' = [skSteps EXCEPT ![t] = c]
    /\ UNCHANGED <<skMu, skQueue>>
    /\ SkRest

SkLock(t) ==
    /\ SkAt(t, "lock")
    /\ skMu[SkMutex(t)].w = NoThread
    /\ skMu' = [skMu EXCEPT ![SkMutex(t)].w = t]
    /\ SkReturn(t)
    /\ UNCHANGED skQueue
    /\ SkRest

SkLocked(t) ==
    /\ SkAt(t, "locked")
    /\ skMu[SkMutex(t)].r = {}
    /\ SkReturn(t)
    /\ UNCHANGED <<skMu, skQueue>>
    /\ SkRest

SkUnlock(t) ==
    /\ SkAt(t, "unlock")
    /\ skMu' = [skMu EXCEPT ![SkMutex(t)].w = NoThread]
    /\ SkReturn(t)
    /\ UNCHANGED skQueue
    /\ SkRest

SkRLock(t) ==
    /\ SkAt(t, "rlock")
    /\ CanRLock(skMu[SkMutex(t)])
    /\ skMu' = [skMu EXCEPT ![SkMutex(t)].r = @ \cup {t}]
    /\ SkReturn(t)
    /\ UNCHANGED skQueue
    /\ SkRest

SkRUnlock(t) ==
    /\ SkAt(t, "runlock")
    /\ skMu' = [skMu EXCEPT ![SkMutex(t)].r = @ \ {t}]
    /\ SkReturn(t)
    /\ UNCHANGED skQueue
    /\ SkRest

\* The send in AsyncWriter.Write: it waits while the queue is full.
SkWrite(t) ==
    /\ SkAt(t, "send")
    /\ skQueue < QueueCap
    /\ skQueue' = skQueue + 1
    /\ SkReturn(t)
    /\ UNCHANGED skMu
    /\ SkRest

\* writerLoop takes a buffer from the queue.
SkWorkerWrite ==
    /\ skQueue > 0
    /\ skQueue' = skQueue - 1
    /\ UNCHANGED <<skMu, skSteps>>
    /\ SkRest

\* writerLoop receives t's flush request and answers it.
SkWorkerFlush(t) ==
    /\ SkAt(t, "flush")
    /\ SkReturn(t)
    /\ UNCHANGED <<skMu, skQueue>>
    /\ SkRest

SkStep(t) ==
    \/ SkLock(t) \/ SkLocked(t) \/ SkUnlock(t) \/ SkRLock(t) \/ SkRUnlock(t)
    \/ SkWrite(t)

SkInit ==
    /\ skMode \in {"medium", "async"}
    /\ skMu = [m \in {"p", "l", "i"} |-> [w |-> NoThread, r |-> {}]]
    /\ skSteps = [t \in Threads |-> <<>>]
    /\ skQueue = 0

SkStart == SegIdle /\ PartIdle /\ IxUnused /\ CxUnused /\ mm = NoMm /\ mmRes = NoMmRes
           /\ SkInit /\ AwIdle

SkNext ==
    \/ \E t \in Threads : SkCall(t) \/ SkStep(t) \/ SkWorkerFlush(t)
    \/ SkWorkerWrite

(* sync.Mutex hands a lock to a goroutine that has waited for it, and
   sync.RWMutex lets the readers that waited in when the writer unlocks, so
   a step that is enabled again and again is taken; the worker goroutine
   runs whenever it has something to receive. *)
SkFair ==
    /\ \A t \in Threads : SF_vars(SkStep(t)) /\ WF_vars(SkWorkerFlush(t))
    /\ WF_vars(SkWorkerWrite)

SkSpec == SkStart /\ [][SkNext]_vars /\ SkFair

----------------------------------------------------------------------------
(* An AsyncWriter used by itself by several callers: Write, Flush, Close and
   the worker goroutine.  A datum written is a number; the file under the
   writer is the sequence of the data flushed to it. *)

\* The data of a sequence.
Data(q) == {q[i] : i \in 1..Len(q)}

\* All the data whose Write returned success.
AllAcked == UNION {Data(awAcked[t]) : t \in Threads}

\* A receive that takes the buffer sent last.
QueueReceiveLast(q) == [data |-> q[Len(q)], rest |-> SubSeq(q, 1, Len(q) - 1)]

\* A receive from the queue channel: the buffer sent first, and what stays.
QueueReceive(q) == [data |-> Head(q), rest |-> Tail(q)]

\* The worker takes from its channels although it has returned.
StillReceives(worker) == TRUE

\* The worker takes from its channels until it returns.
Receives(worker) == worker # "exited"

\* A Write whose select has no case for the done channel.
WriteNeverSeesDone(done) == FALSE

\* AsyncWriter.Write, select: case <-aw.done is ready once done is closed.
WriteSeesDone(done) == done

\* AsyncWriter.Write: the buffer is taken from the pool and filled.
AwWriteCall(t) ==
    /\ awPc[t] = "idle" /\ awSent < MaxAwWrites
    /\ awPc' = [awPc EXCEPT ![t] = "write"]
    /\ awArg' = [awArg EXCEPT ![t] = [NoAwArg EXCEPT !.data = awSent + 1, !.late = awDone,
                                                      !.full = Len(awQueue) = QueueCap]]
    /\ awSent' = awSent + 1
    /\ UNCHANGED <<segVars, partVars, ixVars, awQueue, awBuf, awFile, awDone, awWorker,
                   awRes, awAcked, awClosed, awOrder>>

\* AsyncWriter.Write, select: case aw.queue <- poolBuf.
AwWriteSend(t) ==
    /\ awPc[t] = "write" /\ Len(awQueue) < QueueCap
    /\ awQueue' = Append(awQueue, awArg[t].data)
    /\ awOrder' = Append(awOrder, awArg[t].data)
    /\ awAcked' = [awAcked EXCEPT ![t] = Append(@, awArg[t].data)]
    /\ awRes' = [awRes EXCEPT ![t] = [NoAwRes EXCEPT !.op = "write", !.n = 1,
                                                      !.late = awArg[t].late,
                                                      !.full = awArg[t].full]]
    /\ awPc' = [awPc EXCEPT ![t] = "idle"]
    /\ UNCHANGED <<segVars, partVars, ixVars, awBuf, awFile, awDone, awWorker, awArg,
                   awSent, awClosed>>

\* AsyncWriter.Write, select: case <-aw.done.
AwWriteClosed(t) ==
    /\ awPc[t] = "write" /\ WriteSeesDone(awDone)
    /\ awRes' = [awRes EXCEPT ![t] = [NoAwRes EXCEPT !.op = "write", !.st = "closed",
                                                      !.late = awArg[t].late,
                                                      !.full = awArg[t].full]]
    /\ awPc' = [awPc EXCEPT ![t] = "idle"]
    /\ UNCHANGED <<segVars, partVars, ixVars, awQueue, awBuf, awFile, awDone, awWorker,
                   awArg, awAcked, awSent, awClosed, awOrder>>

\* AsyncWriter.Flush: the response channel is made.
AwFlushCall(t) ==
    /\ awPc[t] = "idle"
    /\ awPc' = [awPc EXCEPT ![t] = "flush"]
    /\ awArg' = [awArg EXCEPT ![t] = [NoAwArg EXCEPT !.before = Data(awAcked[t]),
                                                      !.late = awDone,
                                                      !.after = awClosed]]
    /\ UNCHANGED <<segVars, partVars, ixVars, awQueue, awBuf, awFile, awDone, awWorker,
                   awRes, awAcked, awSent, awClosed, awOrder>>

\* AsyncWriter.Flush, select: case <-aw.done.
AwFlushClosed(t) ==
    /\ awPc[t] = "flush" /\ awDone
    /\ awRes' = [awRes EXCEPT ![t] = [NoAwRes EXCEPT !.op = "flush", !.st = "closed",
                                                      !.late = awArg[t].late,
                                                      !.after = awArg[t].after]]
    /\ awPc' = [awPc EXCEPT ![t] = "idle"]
    /\ UNCHANGED <<segVars, partVars, ixVars, awQueue, awBuf, awFile, awDone, awWorker,
                   awArg, awAcked, awSent, awClosed, awOrder>>

\* Flush's case aw.flushReq <- resp meets the worker's case resp := <-aw.flushReq,
\* in writerLoop or in onDone: the worker flushes and answers.
AwWorkerFlush(t) ==
    /\ awPc[t] = "flush" /\ Receives(awWorker)
    /\ awFile' = awFile \o awBuf
    /\ awBuf' = <<>>
    /\ awArg' = [awArg EXCEPT ![t].served = TRUE]
    /\ awPc' = [awPc EXCEPT ![t] = "answered"]
    /\ UNCHANGED <<segVars, partVars, ixVars, awQueue, awDone, awWorker, awRes, awAcked,
                   awSent, awClosed, awOrder>>

\* AsyncWriter.Flush: return <-resp.
AwFlushReturn(t) ==
    /\ awPc[t] = "answered"
    /\ awRes' = [awRes EXCEPT ![t] = [NoAwRes EXCEPT !.op = "flush",
                                                      !.served = awArg[t].served,
                                                      !.late = awArg[t].late,
                                                      !.after = awArg[t].after,
                                                      !.lost = awArg[t].before \ Data(awFile),
                                                      !.queued = Len(awQueue),
                                                      !.worker = awWorker]]
    /\ awPc' = [awPc EXCEPT ![t] = "idle"]
    /\ UNCHANGED <<segVars, partVars, ixVars, awQueue, awBuf, awFile, awDone, awWorker,
                   awArg, awAcked, awSent, awClosed, awOrder>>

\* AsyncWriter.Close: once.Do(close(aw.done)).
AwCloseCall(t) ==
    /\ awPc[t] = "idle"
    /\ awDone' = TRUE
    /\ awPc' = [awPc EXCEPT ![t] = "close"]
    /\ UNCHANGED <<segVars, partVars, ixVars, awQueue, awBuf, awFile, awWorker, awArg,
                   awRes, awAcked, awSent, awClosed, awOrder>>

\* AsyncWriter.Close: wg.Wait() is over, return nil.
AwCloseReturn(t) ==
    /\ awPc[t] = "close" /\ awWorker = "exited"
    /\ awRes' = [awRes EXCEPT ![t] = [NoAwRes EXCEPT !.op = "close",
                                                      !.lost = AllAcked \ Data(awFile),
                                                      !.queued = Len(awQueue),
                                                      !.worker = awWorker]]
    /\ awPc' = [awPc EXCEPT ![t] = "idle"]
    /\ awClosed' = TRUE
    /\ UNCHANGED <<segVars, partVars, ixVars, awQueue, awBuf, awFile, awDone, awWorker,
                   awArg, awAcked, awSent, awOrder>>

\* writerLoop and onDone, case data := <-aw.queue.
AwWorkerWrite ==
    /\ Receives(awWorker) /\ awQueue # <<>>
    /\ awBuf' = Append(awBuf, QueueReceive(awQueue).data)
    /\ awQueue' = QueueReceive(awQueue).rest
    /\ UNCHANGED <<segVars, partVars, ixVars, awFile, awDone, awWorker, awPc, awArg, awRes,
                   awAcked, awSent, awClosed, awOrder>>

\* A tick on which the worker does not flush its writer.
AwWorkerTickSkips == awWorker = "loop" /\ awBuf # <<>> /\ UNCHANGED vars

\* writerLoop, case <-ticker.C.
AwWorkerTick ==
    /\ awWorker = "loop" /\ awBuf # <<>>
    /\ awFile' = awFile \o awBuf
    /\ awBuf' = <<>>
    /\ UNCHANGED <<segVars, partVars, ixVars, awQueue, awDone, awWorker, awPc, awArg, awRes,
                   awAcked, awSent, awClosed, awOrder>>

\* writerLoop, case <-aw.done: onDone begins.
AwWorkerDone ==
    /\ awWorker = "loop" /\ awDone
    /\ awWorker' = "ondone"
    /\ UNCHANGED <<segVars, partVars, ixVars, awQueue, awBuf, awFile, awDone, awPc, awArg,
                   awRes, awAcked, awSent, awClosed, awOrder>>

\* onDone, default: nothing is in the queue; the last flush, and the worker
\* returns.
AwWorkerExit ==
    /\ awWorker = "ondone" /\ awQueue = <<>>
    /\ awFile' = awFile \o awBuf
    /\ awBuf' = <<>>
    /\ awWorker' = "exited"
    /\ UNCHANGED <<segVars, partVars, ixVars, awQueue, awDone, awPc, awArg, awRes, awAcked,
                   awSent, awClosed, awOrder>>

\* NewAsyncWriterSize.
AwInit ==
    /\ awQueue = <<>>
    /\ awBuf = <<>>
    /\ awFile = <<>>
    /\ awDone = FALSE
    /\ awWorker = "loop"
    /\ awPc = [t \in Threads |-> "idle"]
    /\ awArg = [t \in Threads |-> NoAwArg]
    /\ awRes = [t \in Threads |-> NoAwRes]
    /\ awAcked = [t \in Threads |-> <<>>]
    /\ awSent = 0
    /\ awClosed = FALSE
    /\ awOrder = <<>>

AwStart == SegIdle /\ PartIdle /\ IxIdle /\ AwInit

AwNext ==
    \/ \E t \in Threads :
          \/ AwWriteCall(t) \/ AwWriteSend(t) \/ AwWriteClosed(t)
          \/ AwFlushCall(t) \/ AwFlushClosed(t) \/ AwWorkerFlush(t) \/ AwFlushReturn(t)
          \/ AwCloseCall(t) \/ AwCloseReturn(t)
    \/ AwWorkerWrite \/ AwWorkerTick \/ AwWorkerDone \/ AwWorkerExit

AwSpec == AwStart /\ [][AwNext]_vars

\* The scheduling of the AsyncWriter.  The worker goroutine runs: each case of
\* its select that stays ready is taken (a select picks among its ready cases
\* at random, and the ticker fires every 100 ms).  A caller blocked in Write's
\* select proceeds when one of its cases is ready (senders blocked on a
\* channel are served first come, first served).
AwFair ==
    /\ WF_vars(AwWorkerWrite)
    /\ WF_vars(AwWorkerTick)
    /\ WF_vars(AwWorkerDone)
    /\ WF_vars(AwWorkerExit)
    /\ \A t \in Threads : SF_vars(AwWriteSend(t) \/ AwWriteClosed(t))

\* The steps of the runs in which the scheduling is studied: both callers
\* write, and the second one also flushes and closes the writer.
AwLiveNext ==
    \/ \E t \in Threads : AwWriteCall(t) \/ AwWriteSend(t) \/ AwWriteClosed(t)
    \/ AwFlushCall(2) \/ AwFlushClosed(2) \/ AwWorkerFlush(2) \/ AwFlushReturn(2)
    \/ AwCloseCall(2) \/ AwCloseReturn(2)
    \/ AwWorkerWrite \/ AwWorkerTick \/ AwWorkerDone \/ AwWorkerExit

AwLiveSpec == AwStart /\ [][AwLiveNext]_vars /\ AwFair

\* The steps of the runs in which no caller calls Flush or Close: the callers
\* write, the worker serves its queue and its ticker (done is never closed).
AwTickNext ==
    \/ \E t \in Threads : AwWriteCall(t) \/ AwWriteSend(t)
    \/ AwWorkerWrite \/ AwWorkerTick

AwTickSpec == AwStart /\ [][AwTickNext]_vars /\ AwFair

----------------------------------------------------------------------------
(* The properties. *)

\* What FindRecord(target) on the segment returns once all that was sent to
\* its writer is in the file.
FindSettled(target) == FindRecord(l, Settled, idxFile, target)

\* FindRecord's result is the record stamped target with the given payload.
Returns(r, target, payload) ==
    /\ r.st = "ok"
    /\ r.rec.Header.LogicalOffset = target
    /\ r.rec.Payload = payload

\* C1: on a segment created fresh with any base offset b, after N successful
\* appends and no others next_offset is N, and for every i in [0, N)
\* FindRecord(b + i) returns the record stamped b + i with the i-th payload.
C1_FreshAppendFind ==
    (l.open /\ ~l.readOnly /\ origin = "fresh") =>
        /\ l.nextOffset = Len(hist)
        /\ \A i \in 1..Len(hist) :
              Returns(FindSettled(l.baseOffset + i - 1), l.baseOffset + i - 1, hist[i].payload)

\* C2: K threads append concurrently to one segment of base b; when all N
\* appends have returned, next_offset is N, the stored offsets are exactly
\* b .. b+N-1, each once, and FindRecord(b + i) succeeds with that offset in
\* its header for every i in [0, N).
C2_ConcurrentAppends ==
    (l.open /\ \A t \in Threads : pc[t] = "idle") =>
        /\ l.nextOffset = Len(hist)
        /\ Len(Settled) = Len(hist)
        /\ {Settled[k].off : k \in 1..Len(Settled)}
              = l.baseOffset .. (l.baseOffset + Len(hist) - 1)
        /\ \A i \in 1..Len(hist) :
              LET r == FindSettled(l.baseOffset + i - 1) IN
              r.st = "ok" /\ r.rec.Header.LogicalOffset = l.baseOffset + i - 1

\* The partition never restarted and rotated by record count only.
CountRotated == p.st = "ok" /\ restarts = 0 /\ ticks = 0 /\ ~aged

\* C3: on a fresh partition that received N successful appends, rotating every
\* RotateLimit records, Read(i) returns the i-th payload for every i in [0, N)
\* and Read(N) returns an error.
C3_PartitionReadAll ==
    CountRotated =>
        /\ \A i \in 1..Len(phist) :
              LET r == Read(p, dir, i - 1) IN
              r.st = "ok" /\ r.rec.Payload = phist[i].payload
        /\ Read(p, dir, Len(phist)).st # "ok"

\* C4: the offsets stamped by successive successful appends of a partition
\* are 0, 1, 2, ... with no gap and no duplicate across rotations: the record
\* appended after RotateLimit earlier ones is stamped RotateLimit in the new
\* active segment and FindRecord(RotateLimit) finds it there.
C4_PartitionGapFree ==
    CountRotated =>
        /\ \A i \in 1..Len(phist) : phist[i].off = i - 1
        /\ Len(phist) = RotateLimit + 1 =>
              Returns(FindRecord(p.activeLog, dir[p.activeLogName].log,
                                 dir[p.activeLogName].idx, RotateLimit),
                      RotateLimit, phist[RotateLimit + 1].payload)

\* The step is a successful Partition.Append whose rotate found the active
\* segment due.
RotatingAppend == RotateDue /\ phist' # phist

C6_PartitionNextOffset ==
    p.nextOffset = p.activeLog.baseOffset + p.activeLog.nextOffset

\* C7: a segment of base 0 that took N >= 1 appends and was closed cleanly
\* reports next_offset N when reopened writable, multiples of the index
\* stride included.
C7_ReopenBaseZero ==
    (l.open /\ ~l.readOnly /\ origin = "clean" /\ l.baseOffset = 0
        /\ ~touched /\ Len(hist) >= 1) =>
        l.nextOffset = Len(hist)

\* C8: reopening an existing segment of base b > 0 sets its local next offset
\* to the number of records in the file, so that the next record is stamped
\* b + count.
C8_ReopenBasePositive ==
    (l.open /\ origin = "clean" /\ l.baseOffset > 0 /\ ~touched /\ file # <<>>) =>
        l.nextOffset = Len(file)

\* C9: after a crash, reopening a segment gives a next_offset equal to the
\* number of complete records in the file, whatever the index file holds;
\* stated for segments of base 0.
C9_CrashRecovery ==
    (origin = "crash" /\ opens >= 1 /\ ~touched /\ l.baseOffset = 0) =>
        /\ l.err = "ok"
        /\ l.open => l.nextOffset = Len(WholeRecords(file))

\* C10: in every writable mode FindRecord of an offset whose Append returned
\* before the call began returns that record.
C10_FindAfterAppend ==
    (res.op = "find" /\ res.known) =>
        /\ res.st = "ok"
        /\ res.rec.Header.LogicalOffset = res.target

\* C11: FindRecord(o) with o >= base_offset + next_local_offset returns
\* RecordNotFound and an empty record, however many index entries there are.
C11_FindPastEnd ==
    (res.op = "find" /\ res.target >= l.baseOffset + l.nextOffset) =>
        /\ res.st = "notfound"
        /\ res.rec = NoRecord

\* What Index.FindNearest(t) returns on the segment's index.
NearestOf(t) ==
    LET s == IndexSync(l.index, idxFile) IN FindNearestSearch(s.ix, s.ifile, t)

\* The entries written to the segment's index so far, those its writer still
\* holds included.
EntriesWritten == idxFile \o l.index.buf

\* The greatest offset an index entry of the model can hold.
MaxKey == MaxAppends + 1

\* C12: Index.FindNearest(t) returns the entry with the greatest logical_off
\* <= t among all entries written so far, buffered ones included, and the
\* sentinel {0,0} when there is none.
C12_FindNearestFloor ==
    l.open =>
        \A t \in 0..MaxKey :
            LET below == {i \in 1..Len(EntriesWritten) : EntriesWritten[i].LogicalOff <= t}
            IN IF below = {} THEN NearestOf(t) = EmptyEntry
               ELSE /\ \E i \in below : NearestOf(t) = EntriesWritten[i]
                    /\ \A i \in below : EntriesWritten[i].LogicalOff <= NearestOf(t).LogicalOff

\* The byte at which record k of file f starts.
StartPos(f, k) == FileSize(SubSeq(f, 1, k - 1))

\* C13: for every record of a segment, whatever its base offset, the entry
\* FindRecord gets from FindNearest for the record's global offset has a
\* memory_pos at or before the record's header.
C13_NearestIsLowerBound ==
    l.open =>
        \A k \in 1..Len(Settled) :
            NearestOf(ToUint32(Settled[k].off)).MemoryPos <= StartPos(Settled, k)

\* C16: after any appends, clean closes and reopens of a segment the entries
\* of its index are strictly increasing in logical_off.
C16_IndexStrictlyIncreasing ==
    origin # "crash" =>
        \A i \in 1..Len(EntriesWritten), j \in 1..Len(EntriesWritten) :
            i < j => EntriesWritten[i].LogicalOff < EntriesWritten[j].LogicalOff

\* What Index.LastEntry returns on the Index used by itself.
IxLast == LET s == IndexSync(index, ixFile) IN LastEntrySearch(s.ix, s.ifile)

\* C14: opening an index whose file has 8k + r bytes, r in [1,7], truncates
\* it to 8k bytes without an error, and LastEntry then returns entry k-1, or
\* the sentinel {0,0} when k = 0; a file of 8k bytes keeps its size.
C14_OpenTruncates ==
    ixRes.op = "open" =>
        /\ index.open /\ ixRes.st = "ok"
        /\ IxSize(ixFile, ixTail) = entryWidth * (ixRes.target \div entryWidth)
        /\ IxLast = ixRes.entry

\* C14's case: an index with a whole entry and a torn one after it was opened.
C14_TornOpened ==
    /\ ixRes.op = "open"
    /\ ixRes.target % entryWidth # 0
    /\ ixRes.target > entryWidth

\* C15: after any WriteEntry, FindNearest, LastEntry and Flush calls and a
\* successful Close the index file's size is a multiple of 8 and it holds
\* the entries that were on it at open and then all entries written, in order.
C15_CloseContent ==
    ixRes.op = "close" =>
        /\ IxSize(ixFile, ixTail) % entryWidth = 0
        /\ ixTail = 0
        /\ ixFile = ixBase \o ixLog

\* C15's case: an index that held entries at open took more entries than its
\* writer buffers and was closed.
C15_ClosedAfterOverflow ==
    /\ ixRes.op = "close"
    /\ Len(ixLog) > IndexBufEntries
    /\ ixBase # <<>>

\* C17: once Close was called on an AsyncWriter, every Write called after it
\* returns 0 and WriteAfterClose and puts nothing in the queue, also when
\* the queue has free slots.
C17_WriteAfterClose ==
    \A t \in Threads :
        (awRes[t].op = "write" /\ awRes[t].late) =>
            /\ awRes[t].st = "closed"
            /\ awRes[t].n = 0

\* C18, as it holds: a Flush called after Close has returned returns
\* WriteAfterClose and cannot block; a Flush that returns success returns
\* only after the worker flushed the buffered writer for that request.  A
\* Flush that overlaps Close may return WriteAfterClose with no flush made.
C18_FlushAnswered ==
    \A t \in Threads :
        /\ (awRes[t].op = "flush" /\ awRes[t].after) => awRes[t].st = "closed"
        /\ (awPc[t] \in {"flush", "answered"} /\ awArg[t].after) =>
              (awPc[t] = "flush" /\ awDone)
        /\ (awRes[t].op = "flush" /\ awRes[t].st = "ok") => awRes[t].served
        /\ (awPc[t] = "answered") => awArg[t].served

\* C18's cases: one caller's Flush began after a Close had returned and has
\* returned; the other's was answered by the worker with success.
C18_BothFlushes ==
    \E t, u \in Threads :
        /\ awRes[t].op = "flush" /\ awRes[t].after /\ awRes[t].st = "closed"
        /\ awRes[u].op = "flush" /\ awRes[u].st = "ok" /\ awRes[u].served

\* C18: a Flush called after Close has returned returns WriteAfterClose and
\* never blocks; a Flush called while the worker is running returns only
\* after the worker has flushed the buffered writer for that request.
C18_FlushWhileRunning ==
    \A t \in Threads :
        /\ (awRes[t].op = "flush" /\ awRes[t].after) => awRes[t].st = "closed"
        /\ (awRes[t].op = "flush" /\ ~awRes[t].after) => awRes[t].served

\* C19: Close returns only after the worker has exited; when it returns the
\* queue is empty and the data of every Write that returned success are
\* flushed to the file under the writer.
C19_CloseLosesNothing ==
    \A t \in Threads :
        awRes[t].op = "close" =>
            /\ awRes[t].worker = "exited"
            /\ awRes[t].queued = 0
            /\ awRes[t].lost = {}

\* C20: when Flush returns success to a caller, the data of every Write that
\* caller had completed before are flushed to the file under the writer.
C20_FlushCoversOwnWrites ==
    \A t \in Threads :
        (awRes[t].op = "flush" /\ awRes[t].st = "ok") => awRes[t].lost = {}

\* What the worker has handed to the buffered writer so far, in order: what
\* was flushed to the file and what is still in the writer's buffer.
Delivered == awFile \o awBuf

\* C21: the async writer hands the buffers to the buffered writer in exactly
\* the order in which their sends onto the queue succeeded: what was delivered
\* is a prefix of the send order (so nothing is delivered twice or out of
\* order), what was sent and not delivered is still queued in that order, and
\* the buffers of one caller are delivered in the order of that caller's calls
\* (the data are numbered in call order).
C21_DeliveredInSendOrder ==
    /\ Delivered \o awQueue = awOrder
    /\ \A i, j \in 1..Len(awOrder) : i # j => awOrder[i] # awOrder[j]
    /\ \A t \in Threads : \A i, j \in 1..Len(Delivered) :
          (i < j /\ Delivered[i] \in Data(awAcked[t]) /\ Delivered[j] \in Data(awAcked[t]))
             => Delivered[i] < Delivered[j]

\* C21 witness: two callers' sends succeeded in the order opposite to the
\* order of their calls, and both buffers were delivered, in send order.
C21_TwoCallersDelivered ==
    /\ awOrder = <<2, 1>>
    /\ Delivered = awOrder
    /\ awAcked[1] # <<>> /\ awAcked[2] # <<>>

\* C22: with the worker scheduled fairly, every call of AsyncWriter.Write
\* returns, with success once its buffer is on the queue or with
\* WriteAfterClose: also when it finds the queue full, and whatever Flush and
\* Close calls of the other caller it is interleaved with.
C22_WriteReturns ==
    \A t \in Threads : (awPc[t] = "write") ~> (awPc[t] = "idle")

\* C22 witness: a Write that found the queue full while the writer was open
\* has returned success.
C22_ReturnedAfterFull ==
    \E t \in Threads :
        /\ awPc[t] = "idle" /\ awRes[t].op = "write" /\ awRes[t].st = "ok"
        /\ awRes[t].full /\ ~awRes[t].late

\* What NewPartition promises of the partition pt and the directory after
\* it, d being the segments of the directory before it.
NewPartitionPost(d, pt, after) ==
    IF DOMAIN d = {}
    THEN /\ pt.st = "ok"
         /\ DOMAIN after = {newLogNameFromInt(0)}
         /\ Len(pt.segments) = 1 /\ pt.segments[1].BaseOffset = 0
         /\ pt.activeLogName = newLogNameFromInt(0)
         /\ pt.activeLog.open /\ ~pt.activeLog.readOnly
         /\ pt.nextOffset = 0
    ELSE /\ pt.st = "ok"
         /\ DOMAIN after = DOMAIN d
         /\ {pt.segments[i].Path : i \in 1..Len(pt.segments)} = DOMAIN d
         /\ \A i \in 1..Len(pt.segments) : pt.segments[i].BaseOffset = toInt(pt.segments[i].Path)
         /\ \A i, j \in 1..Len(pt.segments) :
               i < j => pt.segments[i].BaseOffset < pt.segments[j].BaseOffset
         /\ pt.activeLogName = pt.segments[Len(pt.segments)].Path
         /\ pt.activeLog.open /\ ~pt.activeLog.readOnly
         /\ pt.nextOffset = toInt(pt.activeLogName) + pt.activeLog.nextOffset

\* C23: NewPartition on a directory without .log files (missing, empty, or
\* with entries that are not .log files only) makes exactly the segment 0,
\* active, with the partition's next offset 0; on a directory with .log files
\* the segments are all of them in ascending order of base offset, the active
\* one is the last, and the partition's next offset is its base offset plus
\* its next local offset.
C23_NewPartitionPost ==
    /\ NewPartitionPost(<<>>, p, dir)
    /\ [][restarts' = restarts + 1 => NewPartitionPost(dir, p', dir')]_vars

\* C24: in every state of a partition, whatever Append calls were made
\* (rotations by count and by age, of segments with and without records, and
\* calls that failed), the base offsets of the segments are strictly
\* increasing in the order of the list, and the active segment is the last
\* element of the list.
C24_SegmentsOrdered ==
    p.st = "ok" =>
        /\ \A i, j \in 1..Len(p.segments) :
               i < j => p.segments[i].BaseOffset < p.segments[j].BaseOffset
        /\ p.segments # <<>>
        /\ p.activeLogName = p.segments[Len(p.segments)].Path
        /\ p.activeLog.baseOffset = p.segments[Len(p.segments)].BaseOffset

\* C25: Partition.Append rotates exactly when, at entry, the active segment
\* was created more than 24 hours ago or its next local offset has reached
\* RotateLimit; otherwise the append leaves the active segment, its name and
\* the list of segments as they were.  So the first RotateLimit appends made
\* within 24 hours to a fresh partition are all in segment 0, and no segment
\* ever holds more than RotateLimit records.
C25_RotationTrigger ==
    /\ [][phist' # phist =>
            LET due == aged \/ p.activeLog.nextOffset >= RotateLimit IN
            /\ due <=> Len(p'.segments) = Len(p.segments) + 1
            /\ due <=> p'.activeLogName # p.activeLogName
            /\ ~due => /\ p'.segments = p.segments
                       /\ p'.activeLog.baseOffset = p.activeLog.baseOffset
                       /\ DOMAIN dir' = DOMAIN dir]_vars
    /\ []((p.st = "ok" /\ CountRotated /\ Len(phist) <= RotateLimit) =>
            /\ Len(p.segments) = 1
            /\ DOMAIN dir = {newLogNameFromInt(0)}
            /\ Len(dir[newLogNameFromInt(0)].log) = Len(phist))
    /\ [](\A name \in DOMAIN dir : Len(dir[name].log) <= RotateLimit)

\* C25 witness: segment 0 holds RotateLimit records, the append after them
\* has rotated, and a later append has rotated by age.
C25_FullSegmentRotated ==
    /\ p.st = "ok" /\ pres.op = "append"
    /\ Len(dir[newLogNameFromInt(0)].log) = RotateLimit
    /\ Len(p.segments) = 3
    /\ ticks = 1 /\ ~aged

\* C26: Append on a segment opened read-only returns the read-only error and
\* changes nothing: the handle (its next local offset, its next memory
\* position, its index), the segment file and the index file are as before.
\* (A step whose result is a new result of Append is a call of Append.)
C26_ReadOnlyAppend ==
    [][(l.open /\ l.readOnly /\ res'.op = "append" /\ res' # res) =>
          /\ res'.st = "readonly"
          /\ UNCHANGED <<l, file, idxFile, queue, abuf, hist>>]_vars

\* C26 witness: Append has returned the read-only error on a read-only handle
\* of a segment that holds records.
C26_RefusedAppend ==
    /\ l.open /\ l.readOnly
    /\ res.op = "append" /\ res.st = "readonly"
    /\ file # <<>>

\* C27: when Log.Append has written the record and the write of the index
\* entry, on a stride boundary, fails, Append returns the index error and the
\* record stays appended: the counters have advanced by the record, FindRecord
\* finds the record, and the next Append will be stamped with the offset after it.
C27_IndexWriteFails ==
    (l.open /\ origin = "fresh" /\ res.op = "append" /\ res.st = "indexerr") =>
        /\ l.nextOffset = Len(hist)
        /\ l.nextMemoryPos = FileSize(Settled)
        /\ hist[Len(hist)].off = res.target
        /\ l.baseOffset + l.nextOffset = res.target + 1
        /\ Returns(FindSettled(res.target), res.target, hist[Len(hist)].payload)

\* C28: Index.Close goes through all its four phases (flush of the write
\* buffer, fsync, close of the mmap reader, close of the file) also when an
\* earlier one fails: once Close has returned, with or without an error, the
\* buffer is flushed unless the flush itself failed, and neither the mapping
\* nor the file handle is left open.
C28_CloseAttemptsAll ==
    ixRes.op = "close" =>
        /\ ~index.open
        /\ index.mapped = 0
        /\ ixRes.st # "flusherr" => index.buf = <<>>

\* C29: opening a segment read-only, reading from it and closing it changes
\* neither the segment file nor its index file: the index file is not
\* truncated or written by the open, by the searches or by the close.
C29_ReadOnlyLeavesIndex ==
    [][(ixRes'.op = "openro" \/ (index.open /\ index.ro)) =>
          UNCHANGED <<ixFile, ixTail>>]_vars

\* The entries of the segment's index once its writer is flushed.
IndexFlushed == idxFile \o l.index.buf

FloorKey(n, target) ==
    LET keys == {cxAcked[i].LogicalOff : i \in 1..n} IN
    IF \E k \in keys : k <= target
    THEN CHOOSE k \in keys : k <= target /\ \A j \in keys : j <= target => j <= k
    ELSE 0

\* C31: among threads that call WriteEntry, FindNearest and LastEntry on one
\* Index, a FindNearest(target) returns an entry that is no farther from
\* target than the nearest entry acknowledged before the call began, and a
\* LastEntry returns that last entry or a later one: whether the entry was
\* in the writer's buffer or on a file longer than the mapping.
C31_LookupSeesAcked ==
    ~cx.closed =>
        \A t \in Threads :
            LET r == cxRes[t] IN
            /\ r.op \in {"nearest", "last"} =>
                  /\ r.st = "ok"
                  /\ r.entry = EmptyEntry \/ \E i \in 1..Len(cxAcked) : cxAcked[i] = r.entry
            /\ r.op = "nearest" =>
                  /\ r.entry.LogicalOff <= r.target
                  /\ r.entry.LogicalOff >= FloorKey(r.seen, r.target)
            /\ r.op = "last" /\ r.seen > 0 =>
                  r.entry.LogicalOff >= cxAcked[r.seen].LogicalOff

\* C31 witness: a FindNearest that began with entries in the buffer and a
\* file longer than the mapping has returned the last acknowledged entry,
\* while the other thread is inside WriteEntry.
C31_BufferedAndGrown ==
    \E t, u \in Threads :
        /\ ~cx.closed /\ cxPc[u] = "write"
        /\ cxRes[t].op = "nearest" /\ cxRes[t].inbuf /\ cxRes[t].grew
        /\ cxRes[t].seen > IndexBufEntries /\ cxRes[t].target = cxRes[t].seen
        /\ cxRes[t].entry = cxAcked[cxRes[t].seen]

\* C32: reader.data of the shared Index changes (Sync's Munmap and Mmap,
\* Close's Munmap) only in a step of the thread that holds Index.mu
\* exclusively, with no thread holding it shared; and while a thread is in
\* its shared section the mapping is the live one whose length it computed
\* its entry count from.
C32_RemapExclusive ==
    /\ [](\A t \in Threads : cxPc[t] = "read" => Stable(cxArg[t]))
    /\ [][cx'.data # cx.data =>
              /\ cxMu.w \in Threads /\ cxMu.r = {}
              /\ cxPc[cxMu.w] \in {"sync", "remap", "close"}
              /\ \A t \in Threads : cxPc[t] = "read" => cxPc'[t] = "read"]_vars

\* C32 witness: a thread is inside its shared section over a mapping that is
\* not empty, and the writer's buffer holds an entry the mapping lacks, put
\* there by the WriteEntry the other thread has returned from.
C32_ReaderWhileStale ==
    \E t, u \in Threads :
        /\ cxPc[t] = "read" /\ cxArg[t].n > 0 /\ cx.buf # <<>>
        /\ cxPc[u] = "idle" /\ cxRes[u].op = "write"

\* C33: a Sync that finds the file no longer than the mapping changes
\* nothing; a Sync that succeeds otherwise leaves a mapping of the size of
\* the file; after a Sync that fails in Munmap or in Mmap the store has no
\* mapping, and ReadAt fails with the empty-store error.
C33_SyncReplacesOrEmpties ==
    /\ mmRes.op = "sync" /\ mmRes.size <= mmRes.had.len =>
          mmRes.st \in {"ok", "staterr"} /\ mm.data = mmRes.had
    /\ mmRes.op = "sync" /\ mmRes.size > mmRes.had.len /\ mmRes.st = "ok" =>
          mm.data = [len |-> mmRes.size, live |-> TRUE]
    /\ mm.failed => mm.data = NoData
    /\ mm.failed /\ mmRes.op = "read" => mmRes.st = "empty"

\* The bytes of the records that were appended to the segment after the first
\* n.
RECURSIVE AppendedBytes(_)
AppendedBytes(n) ==
    IF n >= Len(hist) THEN 0 ELSE RecSize(hist[n + 1].payload) + AppendedBytes(n + 1)

\* C34: while a writable segment is open, nextMemoryPos is the size the file
\* had when the handle was opened plus HeaderSize + len(payload) for each
\* record appended since, and nextOffset is its value at the open plus the
\* number of those records; an Append whose writeFunc fails changes neither.
C34_Counters ==
    /\ [](l.open /\ ~l.readOnly =>
            /\ l.nextMemoryPos = atOpen.size + AppendedBytes(atOpen.appends)
            /\ l.nextOffset = atOpen.nextOffset + Len(hist) - atOpen.appends)
    /\ [][res' # res /\ res'.op = "append" /\ res'.st = "writeerr" =>
              /\ l'.nextMemoryPos = l.nextMemoryPos
              /\ l'.nextOffset = l.nextOffset]_vars

\* C34 witness: on a handle opened on a file that held records, an Append
\* has returned success after an Append whose write failed.
C34_AppendAfterFailure ==
    /\ l.open /\ ~l.readOnly /\ opens > 0
    /\ atOpen.size > 0 /\ faults > 0
    /\ Len(hist) > atOpen.appends
    /\ res.op = "append" /\ res.st = "ok"

\* C35: with the worker scheduled fairly and its ticker firing, the data of
\* every Write that returned success while the writer was open is
\* eventually on the file, in runs in which no caller calls Flush or Close.
C35_AckedReachesFile ==
    \A d \in 1..(MaxAwWrites + 1) : (d \in AllAcked) ~> (d \in Data(awFile))

\* C35 witness: every Write the callers made is on the file, the writer is
\* open and its worker in its loop.
C35_AllOnFile ==
    /\ ~awDone /\ awWorker = "loop"
    /\ awSent = MaxAwWrites /\ Len(awFile) = MaxAwWrites
    /\ \A t \in Threads : awAcked[t] # <<>>

\* The entries Append gave to the index of the segment, in order.
IndexEntries == idxFile \o l.index.buf

\* C36: every index entry Append has written holds the nextOffset and the
\* nextMemoryPos the handle had when it was written: the number of records
\* appended until then and the bytes they take on the file, also when the
\* file is longer than the greatest value MemoryPos can hold.
C36_EntriesExact ==
    (l.open /\ origin = "fresh") =>
        \A i \in 1..Len(IndexEntries) :
            LET e == IndexEntries[i]
                n == i * IndexStride
            IN /\ e.LogicalOff = n
               /\ e.MemoryPos = AppendedBytes(0) - AppendedBytes(n)

\* The step is a Partition.Append in which rotate returned an error.
RotationFailed == faults' # faults /\ pres'.st \in {"closeerr", "openerr"}

\* C37: when rotate fails inside Partition.Append (activeLog.Close or
\* NewLogMediumDurable returns an error), Append returns the error and the
\* partition is as usable as before: the active segment is a handle that is
\* not nil, open and writable, of the name in activeLogName; segments and
\* nextOffset are unchanged; and no later Append crashes.
C37_RotationFailureKept ==
    /\ [][RotationFailed =>
              /\ p'.activeLog.err # "nil"
              /\ p'.activeLog.open /\ ~p'.activeLog.readOnly
              /\ p'.activeLog.baseOffset = toInt(p'.activeLogName)
              /\ p'.activeLogName = p.activeLogName
              /\ p'.segments = p.segments
              /\ p'.nextOffset = p.nextOffset]_vars
    /\ [](pres.st # "panic")

\* The goroutines that wait: for a lock another holds, or for room in the queue.
SkWaiting ==
    {t \in Threads :
        \/ SkAt(t, "lock") /\ skMu[SkMutex(t)].w # NoThread
        \/ SkAt(t, "locked") /\ skMu[SkMutex(t)].r # {}
        \/ SkAt(t, "rlock") /\ ~CanRLock(skMu[SkMutex(t)])
        \/ SkAt(t, "send") /\ skQueue = QueueCap}

\* C38: with the worker scheduled fairly and no Close of the writer, every
\* call a goroutine has started on the partition, the segment, the index or
\* the async writer returns: the locks and the queue never block it for ever.
C38_EveryCallReturns ==
    \A t \in Threads : (skSteps[t] # <<>>) ~> (skSteps[t] = <<>>)

\* An Append holds Log.mu and waits for room in the full queue while the
\* other goroutine waits for Log.mu.
C38_BlockedBehindFullQueue ==
    \E t \in Threads : \E u \in Threads \ {t} :
        /\ skMu["l"].w = t
        /\ SkAt(t, "send")
        /\ skQueue = QueueCap
        /\ u \in SkWaiting
        /\ SkMutex(u) = "l"

====
